---------------------------- MODULE Spec2Model ----------------------------
(***************************************************************************)
(* Sentence assignment and session progress of the voice recording app     *)
(* (src/main_app/app.py): dialect codes, the per-country sentence cache,   *)
(* filter_sentences, the session store (load_session / save_session) and  *)
(* the login / save / skip / logout handlers of one browser session.       *)
(*                                                                         *)
(* Strings the code takes apart (dialect codes) are sequences of           *)
(* one-character strings; strings it only compares or passes on (ids,      *)
(* texts, usernames, messages) are TLA+ strings.                           *)
(***************************************************************************)
EXTENDS Integers, Sequences, FiniteSets, TLC

(***************************************************************************)
(* Bounds of the model.                                                    *)
(***************************************************************************)
\* longest sentence file handed to filter_sentences on its own
MaxPool == 2
\* longest sentence file of the recording sessions
MaxSessionPool == 2
\* longest valid recording, in whole seconds
MaxAudio == 1
\* latest reading of the wall clock (datetime.utcnow())
MaxClock == 1
\* requests that load the sentences of one country at the same time
MaxRequests == 2
\* longest dialect code handed to split_dialect_code on its own
MaxLen == 3
\* largest duration and largest target handed to make_progress_bar, in seconds
MaxSeconds == 5
MaxTarget == 4
\* largest time_seconds of a leaderboard row
MaxTime == 2

(***************************************************************************)
(* Strings as sequences of characters.                                     *)
(***************************************************************************)
NoneStr == <<>>

EG_CA == <<"e", "g", "-", "c", "a">>
EG_AL == <<"e", "g", "-", "a", "l">>
EG_OTH == <<"e", "g", "-", "o", "t", "h">>
EG_CA_RAW == <<" ", "E", "G", "-", "c", "a">>
SA_HJ == <<"s", "a", "-", "h", "j">>
UNK_GEN == <<"u", "n", "k", "-", "g", "e", "n">>
GEN == <<"g", "e", "n">>
OTH == <<"o", "t", "h">>

\* str.lower() on one character
LowerChar(c) ==
  CASE c = "E" -> "e"
    [] c = "G" -> "g"
    [] c = "C" -> "c"
    [] c = "A" -> "a"
    [] OTHER -> c

\* str.lower()
Lower(s) == [i \in 1..Len(s) |-> LowerChar(s[i])]

IsSpace(c) == c = " "

RECURSIVE LStrip(_)
LStrip(s) ==
  IF s # <<>> /\ IsSpace(Head(s)) THEN LStrip(Tail(s)) ELSE s

RECURSIVE RStrip(_)
RStrip(s) ==
  IF s # <<>> /\ IsSpace(s[Len(s)]) THEN RStrip(SubSeq(s, 1, Len(s) - 1)) ELSE s

\* str.strip()
Strip(s) == RStrip(LStrip(s))

\* index of the first "-" of s, 0 when there is none
RECURSIVE FirstDash(_, _)
FirstDash(s, i) ==
  IF i > Len(s) THEN 0
  ELSE IF s[i] = "-" THEN i
  ELSE FirstDash(s, i + 1)

\* the normalisation without its lower()
NormalizeDialect_keeps_case(dialect_code) ==
  LET n == Strip(dialect_code)
  IN IF n = <<>> THEN UNK_GEN ELSE n

\* (dialect_code or "").strip().lower() or "unk-gen"
NormalizeDialect(dialect_code) ==
  LET n == Lower(Strip(dialect_code))
  IN IF n = <<>> THEN UNK_GEN ELSE n

\* split_dialect_code taking every code as one without a separator
split_dialect_code_never_splits(dialect_code) ==
  <<Lower(Strip(dialect_code)), GEN>>

\* split_dialect_code: <<country, subtag>>
split_dialect_code(dialect_code) ==
  LET n == NormalizeDialect(dialect_code)
      k == FirstDash(n, 1)
  IN IF k > 0
       THEN <<SubSeq(n, 1, k - 1), SubSeq(n, k + 1, Len(n))>>
       ELSE <<n, GEN>>

get_fallback_dialect_code(user_dialect_code) ==
  split_dialect_code(user_dialect_code)[1] \o <<"-">> \o OTH

\* the dialect codes the model hands to these functions: the codes create_user
\* writes, do_login's default, a code no sentence carries, None, and a code
\* that is not in normal form; and their normal forms
InputCodes == {EG_CA, EG_OTH, EG_AL, SA_HJ, NoneStr, EG_CA_RAW}
DialectCodes == InputCodes \cup {NormalizeDialect(d) : d \in InputCodes}

\* the three functions tabulated over DialectCodes
Normalized == [d \in DialectCodes |-> NormalizeDialect(d)]
CountryOf == [d \in DialectCodes |-> split_dialect_code(d)[1]]
FallbackOf == [d \in DialectCodes |-> get_fallback_dialect_code(d)]


(***************************************************************************)
(* Sentence files and the sentence cache.                                  *)
(***************************************************************************)
EG == <<"e", "g">>
SA == <<"s", "a">>
UNK == <<"u", "n", "k">>
Countries == {EG, SA, UNK}

\* the "dialect" lists a sentence of the Egyptian file may carry
TagChoices == {<<EG_CA>>, <<EG_OTH>>, <<EG_CA, EG_OTH>>, <<EG_AL>>}

IdNames == <<"s1", "s2", "s3", "s4">>
TextNames == <<"t1", "t2", "t3", "t4">>
Ids == {IdNames[i] : i \in 1..MaxPool}
NoId == ""

\* the "sentences" array of a sentence file whose i-th entry carries tags[i]
PoolOf(tags) ==
  [i \in 1..Len(tags) |->
     [unique_id |-> IdNames[i], text |-> TextNames[i], dialect |-> tags[i]]]

Pools == {PoolOf(tags) : tags \in UNION {[1..n -> TagChoices] : n \in 0..MaxPool}}

\* the sentence files of the recording sessions: the first n sentences of
\* one file with a sentence of the participant's dialect, one of the general
\* pool, one of both and one of another dialect
MasterTags == <<<<EG_CA>>, <<EG_OTH>>, <<EG_CA, EG_OTH>>, <<EG_AL>>>>
SessionPools ==
  {PoolOf(SubSeq(MasterTags, 1, n)) : n \in 0..MaxSessionPool}

\* a file: whether it exists, whether its text is a JSON document, and the
\* "sentences" array of that document
NoFile == [exists |-> FALSE, json |-> FALSE, sentences |-> <<>>]
FileOf(pool) == [exists |-> TRUE, json |-> TRUE, sentences |-> pool]

\* a file opened for writing and not written yet: it exists and is empty
Truncated == [exists |-> TRUE, json |-> FALSE, sentences |-> <<>>]

\* the Saudi sentence file: missing, or one sentence of do_login's default dialect
SaudiFiles ==
  {NoFile,
   FileOf(<<[unique_id |-> "h1", text |-> "th", dialect |-> <<SA_HJ>>]>>)}
NotCached == [cached |-> FALSE, sentences |-> <<>>]

(***************************************************************************)
(* The session store: one row of the "sessions" table per username.        *)
(***************************************************************************)
Users == {"u1"}
NoUser == "none"

\* users.dialect_code as create_user writes it: "<country>-<subtag>"
ParticipantCodes == {EG_CA, EG_OTH}

NoRow ==
  [exists |-> FALSE, completed_sentences |-> <<>>,
   total_recording_duration |-> 0, updated_at |-> 0]

\* the row create_user inserts at registration
NewRow ==
  [exists |-> TRUE, completed_sentences |-> <<>>,
   total_recording_duration |-> 0, updated_at |-> 0]

\* no metadata file on disk and no metadata blob on S3
NoFiles == [k \in {} |-> <<>>]
NoMetadata == [local |-> NoFiles, s3 |-> NoFiles]

VARIABLES
  files,            \* country -> sentences_<country>.json
  SENTENCES_CACHE,  \* country -> cached sentence list
  supabase,         \* TRUE when the Supabase client is configured
  users,            \* username -> dialect_code of the users table
  sessions,         \* username -> row of the sessions table
  clock,            \* datetime.utcnow()
  st,               \* the gr.State dictionary of the browser session
  msg,              \* status the last handler returned
  printed,          \* the functions whose except branch printed in the last call
  raised,           \* TRUE when the last call let an exception escape
  returned,         \* username -> ids sentence selection has handed out
  history,          \* the store calls of the browser session, and the session before
  leaderboard,      \* the rows of the leaderboard_lifetime_country table
  aliases,          \* the rows of the leaderboard_aliases_country_lifetime table
  metadata,         \* the metadata files on disk and the metadata blobs on S3
  call,             \* the function call under test, with its arguments
  result            \* what that call returned

vars ==
  <<files, SENTENCES_CACHE, supabase, users, sessions, clock, st, msg, printed,
    raised, returned, history, leaderboard, aliases, metadata, call, result>>

Range(s) == {s[i] : i \in 1..Len(s)}

(***************************************************************************)
(* load_sentences_for_country: the list returned, and the cache and the    *)
(* files it leaves behind.                                                 *)
(***************************************************************************)
\* load_sentences_for_country without its placeholder
FilesAfterLoad_no_placeholder(country_code) == files

FilesAfterLoad(country_code) ==
  IF SENTENCES_CACHE[country_code].cached \/ files[country_code].exists
    THEN files
    ELSE [files EXCEPT ![country_code] = FileOf(<<>>)]

\* load_sentences_for_country reading the file whether or not the country is cached
CacheAfterLoad_rereads(country_code) ==
  [SENTENCES_CACHE EXCEPT ![country_code] =
     [cached |-> TRUE,
      sentences |-> FilesAfterLoad(country_code)[country_code].sentences]]

CacheAfterLoad(country_code) ==
  IF SENTENCES_CACHE[country_code].cached
    THEN SENTENCES_CACHE
    ELSE [SENTENCES_CACHE EXCEPT ![country_code] =
            [cached |-> TRUE,
             sentences |-> FilesAfterLoad(country_code)[country_code].sentences]]

load_sentences_for_country(country_code) ==
  CacheAfterLoad(country_code)[country_code].sentences

(***************************************************************************)
(* filter_sentences: the candidate list, each entry with the dialect code  *)
(* it was picked under.                                                    *)
(***************************************************************************)
\* _pick without its "sid not in completed_set" test
_pick_keeps_completed(all_sentences, completed_set, dcode) ==
  LET Keep(s) == dcode \in Range(s.dialect)
      kept == SelectSeq(all_sentences, Keep)
  IN [i \in 1..Len(kept) |->
        [sid |-> kept[i].unique_id, text |-> kept[i].text, dcode |-> dcode]]

_pick(all_sentences, completed_set, dcode) ==
  LET Keep(s) == s.unique_id \notin completed_set /\ dcode \in Range(s.dialect)
      kept == SelectSeq(all_sentences, Keep)
  IN [i \in 1..Len(kept) |->
        [sid |-> kept[i].unique_id, text |-> kept[i].text, dcode |-> dcode]]

\* filter_sentences adding the fallback candidates to the primary ones
filter_sentences_merged(dialect_code, completed_ids, allow_fallback) ==
  LET completed_set == Range(completed_ids)
      dc == Normalized[dialect_code]
      all_sentences == load_sentences_for_country(CountryOf[dc])
      primary == _pick(all_sentences, completed_set, dc)
  IN IF allow_fallback
       THEN primary \o _pick(all_sentences, completed_set, FallbackOf[dc])
       ELSE primary

\* filter_sentences falling back whatever allow_fallback says
filter_sentences_always_fallback(dialect_code, completed_ids, allow_fallback) ==
  LET completed_set == Range(completed_ids)
      dc == Normalized[dialect_code]
      all_sentences == load_sentences_for_country(CountryOf[dc])
      primary == _pick(all_sentences, completed_set, dc)
  IN IF primary # <<>> THEN primary
     ELSE _pick(all_sentences, completed_set, FallbackOf[dc])

filter_sentences(dialect_code, completed_ids, allow_fallback) ==
  LET completed_set == Range(completed_ids)
      dc == Normalized[dialect_code]
      country_code == CountryOf[dc]
      all_sentences == load_sentences_for_country(country_code)
      primary == _pick(all_sentences, completed_set, dc)
  IN IF primary # <<>> THEN primary
     ELSE IF allow_fallback
       THEN _pick(all_sentences, completed_set, FallbackOf[dc])
       ELSE <<>>

\* the cache and the files after filter_sentences(dialect_code, ...)
CacheAfterFilter(dialect_code) ==
  CacheAfterLoad(CountryOf[Normalized[dialect_code]])

FilesAfterFilter(dialect_code) ==
  FilesAfterLoad(CountryOf[Normalized[dialect_code]])


(***************************************************************************)
(* load_session and save_session.  `fails` says that the Supabase call     *)
(* raises; both functions catch it and print the error.                    *)
(***************************************************************************)
\* load_session returning the completed list without the stored duration
load_session_drops_duration(username, fails) ==
  IF supabase /\ ~fails /\ sessions[username].exists
    THEN [completed_sentences |-> sessions[username].completed_sentences,
          total_recording_duration |-> 0,
          printed |-> {}, raised |-> FALSE]
    ELSE [completed_sentences |-> <<>>, total_recording_duration |-> 0,
          printed |-> IF supabase /\ fails THEN {"load_session"} ELSE {},
          raised |-> FALSE]

load_session(username, fails) ==
  IF supabase /\ ~fails /\ sessions[username].exists
    THEN [completed_sentences |-> sessions[username].completed_sentences,
          total_recording_duration |-> sessions[username].total_recording_duration,
          printed |-> {}, raised |-> FALSE]
    ELSE [completed_sentences |-> <<>>, total_recording_duration |-> 0,
          printed |-> IF supabase /\ fails THEN {"load_session"} ELSE {},
          raised |-> FALSE]

\* an upsert that adds the submitted duration to the stored one
UpsertRow_accumulates(username, completed_sentences, total_duration) ==
  [exists |-> TRUE, completed_sentences |-> completed_sentences,
   total_recording_duration |->
     sessions[username].total_recording_duration + total_duration,
   updated_at |-> clock]

\* an upsert that merges the submitted progress into the stored row
UpsertRow_merges(username, completed_sentences, total_duration) ==
  LET old == sessions[username]
      New(x) == x \notin Range(old.completed_sentences)
  IN [exists |-> TRUE,
      completed_sentences |->
        old.completed_sentences \o SelectSeq(completed_sentences, New),
      total_recording_duration |->
        IF old.total_recording_duration > total_duration
          THEN old.total_recording_duration ELSE total_duration,
      updated_at |-> clock]

\* the row the upsert of save_session leaves for `username`
UpsertRow(username, completed_sentences, total_duration) ==
  [exists |-> TRUE, completed_sentences |-> completed_sentences,
   total_recording_duration |-> total_duration, updated_at |-> clock]

\* save_session without its try/except
save_session_unguarded(username, completed_sentences, total_duration, fails) ==
  IF ~supabase
    THEN [sessions |-> sessions, printed |-> {}, raised |-> FALSE]
  ELSE IF fails
    THEN [sessions |-> sessions, printed |-> {}, raised |-> TRUE]
  ELSE [sessions |-> [sessions EXCEPT ![username] =
                        UpsertRow(username, completed_sentences, total_duration)],
        printed |-> {}, raised |-> FALSE]

save_session(username, completed_sentences, total_duration, fails) ==
  IF ~supabase
    THEN [sessions |-> sessions, printed |-> {}, raised |-> FALSE]
  ELSE IF fails
    THEN [sessions |-> sessions, printed |-> {"save_session"}, raised |-> FALSE]
  ELSE [sessions |-> [sessions EXCEPT ![username] =
                        UpsertRow(username, completed_sentences, total_duration)],
        printed |-> {}, raised |-> FALSE]

(***************************************************************************)
(* The browser session.                                                    *)
(***************************************************************************)
NoMoreLogin == "No more sentences for your dialect (including general)."
NoMore == "No more sentences."

\* gr.State's initial dictionary, and what do_logout resets it to
LoggedOut ==
  [logged_in |-> FALSE, username |-> NoUser, user_dialect_code |-> NoneStr,
   active_dialect_code |-> NoneStr, dialect_code |-> NoneStr,
   completed_sentences |-> <<>>, total_duration |-> 0,
   current_sentence_id |-> NoId, current_sentence_text |-> ""]

\* a or b, for dialect codes
OrElse(a, b) == IF a # NoneStr THEN a ELSE b

\* next_sentence_for_state leaving the state alone when nothing is available
next_sentence_for_state_keeps_current(s, choice) ==
  LET user_dialect == OrElse(s.user_dialect_code, s.dialect_code)
      available == filter_sentences(user_dialect, s.completed_sentences, TRUE)
  IN IF available = <<>>
       THEN s
       ELSE [s EXCEPT !.current_sentence_id = available[choice].sid,
                      !.current_sentence_text = available[choice].text,
                      !.active_dialect_code = available[choice].dcode]

\* the state next_sentence_for_state leaves, `choice` being random.choice's index
next_sentence_for_state(s, choice) ==
  LET user_dialect == OrElse(s.user_dialect_code, s.dialect_code)
      available == filter_sentences(user_dialect, s.completed_sentences, TRUE)
  IN IF available = <<>>
       THEN [s EXCEPT !.current_sentence_id = NoId,
                      !.current_sentence_text = NoMore,
                      !.active_dialect_code = user_dialect]
       ELSE [s EXCEPT !.current_sentence_id = available[choice].sid,
                      !.current_sentence_text = available[choice].text,
                      !.active_dialect_code = available[choice].dcode]

\* the indexes random.choice may draw from `available` (1 when it is not called)
Choices(available) == IF available = <<>> THEN {1} ELSE 1..Len(available)

\* the ids selection has handed to `username`, once random.choice drew
\* `choice` from `available`
Handed(username, available, choice) ==
  IF available = <<>> THEN returned
  ELSE [returned EXCEPT ![username] = @ \cup {available[choice].sid}]

\* no session has been left yet, or the session after it has moved on
NoPrev == [left |-> FALSE]

\* `loaded`: the session lookup of the last login reached the store;
\* `saved`: so did every save_session since; `prev`: what the session before
\* held when it was logged out, with its own two flags
NoHistory == [loaded |-> TRUE, saved |-> TRUE, prev |-> NoPrev]

Idle == [fn |-> "none"]
NoResult == [fn |-> "none"]

(***************************************************************************)
(* Inputs of the handlers.                                                 *)
(***************************************************************************)
\* the recording handed to handle_save (audio_path or temp_path): none, a file
\* soundfile cannot open, one sampled below 16 kHz, or a good one of
\* `duration` seconds (0 stands for any duration under one second)
AudioInputs ==
  {[kind |-> "none", duration |-> 0], [kind |-> "unreadable", duration |-> 0],
   [kind |-> "lowrate", duration |-> MaxAudio]}
    \cup {[kind |-> "ok", duration |-> d] : d \in 0..MaxAudio}

\* what the sentence box holds when Save is pressed
EditedInputs == {"", " ", "edited"}

\* str.strip() of a text of the model
StripText(t) == IF t = " " THEN "" ELSE t

\* validate_audio's first result
validate_audio(audio) == audio.kind = "ok" /\ audio.duration >= 1

\* the duration save_recording_and_upload returns once the recording is moved
\* and its metadata row written: the moved file read again, 0.0 when that
\* read raises
save_recording_and_upload(audio, reread) == IF reread THEN audio.duration ELSE 0

(***************************************************************************)
(* The handlers.                                                           *)
(***************************************************************************)
do_login ==
  /\ UNCHANGED <<supabase, users, sessions, clock, call, result>>
  /\ \E u \in Users, pwOk, failEmail \in BOOLEAN :
       IF ~(supabase /\ ~failEmail /\ pwOk)
         THEN /\ msg' = "login_bad"
              /\ printed' = IF supabase /\ failEmail
                              THEN {"get_user_by_email"} ELSE {}
              /\ raised' = FALSE
              /\ UNCHANGED <<st, files, SENTENCES_CACHE, returned>>
         ELSE \E failUser, failLoad \in BOOLEAN :
           LET user_dialect_code == IF failUser THEN SA_HJ ELSE users[u]
               sess == load_session(u, failLoad)
               completed == sess.completed_sentences
               available == filter_sentences(user_dialect_code, completed, TRUE)
           IN \E choice \in Choices(available) :
                /\ st' = [logged_in |-> TRUE,
                          username |-> u,
                          user_dialect_code |-> user_dialect_code,
                          active_dialect_code |->
                            IF available = <<>> THEN user_dialect_code
                            ELSE available[choice].dcode,
                          dialect_code |-> user_dialect_code,
                          completed_sentences |-> completed,
                          total_duration |-> sess.total_recording_duration,
                          current_sentence_id |->
                            IF available = <<>> THEN NoId
                            ELSE available[choice].sid,
                          current_sentence_text |->
                            IF available = <<>> THEN NoMoreLogin
                            ELSE available[choice].text]
                /\ SENTENCES_CACHE' = CacheAfterFilter(user_dialect_code)
                /\ files' = FilesAfterFilter(user_dialect_code)
                /\ returned' = Handed(u, available, choice)
                /\ msg' = "login_ok"
                /\ printed' = sess.printed \cup
                     (IF failUser THEN {"get_user_by_username"} ELSE {})
                /\ raised' = sess.raised

\* handle_save adding the new duration after it has persisted the session
SaveAccepted_saves_first(audio, reread, failSave) ==
  LET sid == st.current_sentence_id
      duration == save_recording_and_upload(audio, reread)
      completed == IF sid \in Range(st.completed_sentences)
                     THEN st.completed_sentences
                     ELSE Append(st.completed_sentences, sid)
      s1 == [st EXCEPT !.total_duration = @ + duration,
                       !.completed_sentences = completed]
      saved == save_session(s1.username, s1.completed_sentences,
                            st.total_duration, failSave)
      user_dialect == OrElse(s1.user_dialect_code, s1.dialect_code)
      available == filter_sentences(user_dialect, s1.completed_sentences, TRUE)
  IN \E choice \in Choices(available) :
       /\ st' = next_sentence_for_state(s1, choice)
       /\ sessions' = saved.sessions
       /\ SENTENCES_CACHE' = CacheAfterFilter(user_dialect)
       /\ files' = FilesAfterFilter(user_dialect)
       /\ returned' = Handed(s1.username, available, choice)
       /\ msg' = "saved"
       /\ printed' = saved.printed
       /\ raised' = saved.raised

\* handle_save with "=" for "+=" on the total duration
SaveAccepted_resets_total(audio, reread, failSave) ==
  LET sid == st.current_sentence_id
      duration == save_recording_and_upload(audio, reread)
      completed == IF sid \in Range(st.completed_sentences)
                     THEN st.completed_sentences
                     ELSE Append(st.completed_sentences, sid)
      s1 == [st EXCEPT !.total_duration = duration,
                       !.completed_sentences = completed]
      saved == save_session(s1.username, s1.completed_sentences,
                            s1.total_duration, failSave)
      user_dialect == OrElse(s1.user_dialect_code, s1.dialect_code)
      available == filter_sentences(user_dialect, s1.completed_sentences, TRUE)
  IN \E choice \in Choices(available) :
       /\ st' = next_sentence_for_state(s1, choice)
       /\ sessions' = saved.sessions
       /\ SENTENCES_CACHE' = CacheAfterFilter(user_dialect)
       /\ files' = FilesAfterFilter(user_dialect)
       /\ returned' = Handed(s1.username, available, choice)
       /\ msg' = "saved"
       /\ printed' = saved.printed
       /\ raised' = saved.raised

\* handle_save that does not add the saved id to the completed list
SaveAccepted_forgets_id(audio, reread, failSave) ==
  LET sid == st.current_sentence_id
      duration == save_recording_and_upload(audio, reread)
      completed == st.completed_sentences
      s1 == [st EXCEPT !.total_duration = @ + duration,
                       !.completed_sentences = completed]
      saved == save_session(s1.username, s1.completed_sentences,
                            s1.total_duration, failSave)
      user_dialect == OrElse(s1.user_dialect_code, s1.dialect_code)
      available == filter_sentences(user_dialect, s1.completed_sentences, TRUE)
  IN \E choice \in Choices(available) :
       /\ st' = next_sentence_for_state(s1, choice)
       /\ sessions' = saved.sessions
       /\ SENTENCES_CACHE' = CacheAfterFilter(user_dialect)
       /\ files' = FilesAfterFilter(user_dialect)
       /\ returned' = Handed(s1.username, available, choice)
       /\ msg' = "saved"
       /\ printed' = saved.printed
       /\ raised' = saved.raised

\* handle_save past its checks: the recording is stored and the session advanced
SaveAccepted(audio, reread, failSave) ==
  LET sid == st.current_sentence_id
      duration == save_recording_and_upload(audio, reread)
      completed == IF sid \in Range(st.completed_sentences)
                     THEN st.completed_sentences
                     ELSE Append(st.completed_sentences, sid)
      s1 == [st EXCEPT !.total_duration = @ + duration,
                       !.completed_sentences = completed]
      saved == save_session(s1.username, s1.completed_sentences,
                            s1.total_duration, failSave)
      user_dialect == OrElse(s1.user_dialect_code, s1.dialect_code)
      available == filter_sentences(user_dialect, s1.completed_sentences, TRUE)
  IN \E choice \in Choices(available) :
       /\ st' = next_sentence_for_state(s1, choice)
       /\ sessions' = saved.sessions
       /\ SENTENCES_CACHE' = CacheAfterFilter(user_dialect)
       /\ files' = FilesAfterFilter(user_dialect)
       /\ returned' = Handed(s1.username, available, choice)
       /\ msg' = "saved"
       /\ printed' = saved.printed
       /\ raised' = saved.raised

\* handle_save dropping the current sentence when it returns early
SaveRejected_drops_sentence(status) ==
  /\ msg' = status
  /\ printed' = {}
  /\ raised' = FALSE
  /\ st' = [st EXCEPT !.current_sentence_id = NoId]
  /\ UNCHANGED <<sessions, files, SENTENCES_CACHE, returned>>

\* handle_save returning early with a warning: nothing but the status changes
SaveRejected(status) ==
  /\ msg' = status
  /\ printed' = {}
  /\ raised' = FALSE
  /\ UNCHANGED <<st, sessions, files, SENTENCES_CACHE, returned>>

\* handle_save when save_recording_and_upload raises (the directories, the
\* move of the recording or the metadata file): the exception escapes the
\* handler before the session is touched
SaveRaised ==
  /\ msg' = "save_error"
  /\ printed' = {}
  /\ raised' = TRUE
  /\ UNCHANGED <<st, sessions, files, SENTENCES_CACHE, returned>>

handle_save ==
  /\ UNCHANGED <<supabase, users, clock, call, result>>
  /\ IF ~st.logged_in THEN SaveRejected("login_first")
     ELSE \E audio \in AudioInputs :
       IF audio.kind = "none" THEN SaveRejected("record_first")
       ELSE \E edited_sentence \in EditedInputs :
         LET sentence_text ==
               StripText(IF edited_sentence # "" THEN edited_sentence
                         ELSE st.current_sentence_text)
         IN IF sentence_text = "" THEN SaveRejected("empty_text")
            ELSE IF st.current_sentence_id = NoId THEN SaveRejected("no_active")
            ELSE IF ~validate_audio(audio) THEN SaveRejected("audio_bad")
            ELSE \E stored \in BOOLEAN :
                   IF ~stored THEN SaveRaised
                   ELSE \E reread, failSave \in BOOLEAN :
                          SaveAccepted(audio, reread, failSave)

\* a handle_skip that never adds the id
SkipAdds_never(sid, completed_sentences) == FALSE

\* the test of handle_skip without its "sid and"
SkipAdds_empty_too(sid, completed_sentences) ==
  sid \notin Range(completed_sentences)

\* handle_skip's test: sid and sid not in st["completed_sentences"]
SkipAdds(sid, completed_sentences) ==
  sid # NoId /\ sid \notin Range(completed_sentences)

handle_skip ==
  /\ UNCHANGED <<supabase, users, clock, call, result>>
  /\ IF ~st.logged_in
       THEN /\ msg' = "login_first"
            /\ printed' = {}
            /\ raised' = FALSE
            /\ UNCHANGED <<st, sessions, files, SENTENCES_CACHE, returned>>
       ELSE
         LET sid == st.current_sentence_id
             adds == SkipAdds(sid, st.completed_sentences)
             s1 == IF adds
                     THEN [st EXCEPT !.completed_sentences = Append(@, sid)]
                     ELSE st
             user_dialect == OrElse(s1.user_dialect_code, s1.dialect_code)
             available == filter_sentences(user_dialect, s1.completed_sentences, TRUE)
         IN \E failSave \in (IF adds THEN BOOLEAN ELSE {FALSE}),
               choice \in Choices(available) :
              LET saved == IF adds
                             THEN save_session(s1.username, s1.completed_sentences,
                                               s1.total_duration, failSave)
                             ELSE [sessions |-> sessions, printed |-> {},
                                   raised |-> FALSE]
              IN /\ st' = next_sentence_for_state(s1, choice)
                 /\ sessions' = saved.sessions
                 /\ SENTENCES_CACHE' = CacheAfterFilter(user_dialect)
                 /\ files' = FilesAfterFilter(user_dialect)
                 /\ returned' = Handed(s1.username, available, choice)
                 /\ msg' = "skipped"
                 /\ printed' = saved.printed
                 /\ raised' = saved.raised

do_logout ==
  /\ st' = LoggedOut
  /\ msg' = "logged_out"
  /\ printed' = {}
  /\ raised' = FALSE
  /\ UNCHANGED <<files, SENTENCES_CACHE, supabase, users, sessions, clock,
                 returned, call, result>>

\* time passes between two calls
Tick ==
  /\ clock < MaxClock
  /\ clock' = clock + 1
  /\ UNCHANGED <<files, SENTENCES_CACHE, supabase, users, sessions, st, msg,
                 printed, raised, returned, history, leaderboard, aliases,
                 metadata, call, result>>

Init ==
  /\ \E pool \in SessionPools, saudi \in SaudiFiles :
       files = [c \in Countries |->
                  IF c = EG THEN FileOf(pool) ELSE IF c = SA THEN saudi ELSE NoFile]
  /\ SENTENCES_CACHE = [c \in Countries |-> NotCached]
  /\ supabase \in BOOLEAN
  /\ users \in [Users -> ParticipantCodes]
  /\ sessions \in [Users -> {NoRow, NewRow}]
  /\ clock = 0
  /\ st = LoggedOut
  /\ msg = ""
  /\ printed = {}
  /\ raised = FALSE
  /\ returned = [u \in Users |-> {}]
  /\ history = NoHistory
  /\ leaderboard = <<>>
  /\ aliases = {}
  /\ metadata = NoMetadata
  /\ call = Idle
  /\ result = NoResult

\* one browser session; the session claims do not read updated_at, and the
\* clock stands still here (it advances in SpecStore).  The totals of these
\* sessions stay below LEADERBOARD_MIN_SECONDS_TO_SHOW, under which the
\* leaderboard update of do_login returns before it writes.  The alias table
\* is followed in SpecAlias and the metadata files of the recordings in
\* SpecSave.
Next ==
  \/ do_login /\ UNCHANGED <<history, leaderboard, aliases, metadata>>
  \/ handle_save /\ UNCHANGED <<history, leaderboard, aliases, metadata>>
  \/ handle_skip /\ UNCHANGED <<history, leaderboard, aliases, metadata>>
  \/ do_logout /\ UNCHANGED <<history, leaderboard, aliases, metadata>>

Spec == Init /\ [][Next]_vars

\* the list holding the ids of S, in file order
ListOf(S) ==
  LET InS(x) == x \in S IN SelectSeq(SubSeq(IdNames, 1, MaxPool), InS)

CompletedLists == {ListOf(S) : S \in SUBSET Ids}

(***************************************************************************)
(* The session store on its own: load_session and save_session called with *)
(* any arguments over any stored row, save_session also a second time with *)
(* the arguments of the first.  `call.before` is the table the call found. *)
(***************************************************************************)
StoredRows ==
  {NoRow, NewRow,
   [exists |-> TRUE, completed_sentences |-> <<"s1">>,
    total_recording_duration |-> 1, updated_at |-> 0]}

\* the browser sessions (tabs) of one participant that call save_session
Sessions == {1, 2}

\* the session whose save_session last reached the store, 0 when none did
LastWriter ==
  IF call.fn # "save_session" THEN 0
  ELSE IF supabase /\ ~call.fails THEN call.session
  ELSE call.after

CallLoad ==
  /\ \E u \in Users, fails \in BOOLEAN :
       LET r == load_session(u, fails)
       IN /\ call' = [fn |-> "load_session", username |-> u, fails |-> fails,
                      before |-> sessions]
          /\ result' = [fn |-> "load_session",
                        completed_sentences |-> r.completed_sentences,
                        total_recording_duration |-> r.total_recording_duration]
          /\ printed' = r.printed
          /\ raised' = r.raised
  /\ UNCHANGED <<files, SENTENCES_CACHE, supabase, users, sessions, clock, st,
                 msg, returned, history, leaderboard, aliases, metadata>>

CallSave ==
  /\ \E u \in Users, fails \in BOOLEAN, session \in Sessions :
       \E completed_sentences \in CompletedLists,
          total_duration \in 0..MaxAudio :
         LET r == save_session(u, completed_sentences, total_duration, fails)
         IN /\ call' = [fn |-> "save_session", username |-> u,
                        completed_sentences |-> completed_sentences,
                        total_duration |-> total_duration, fails |-> fails,
                        before |-> sessions, repeated |-> FALSE,
                        first_failed |-> fails, session |-> session,
                        after |-> LastWriter]
            /\ sessions' = r.sessions
            /\ printed' = r.printed
            /\ raised' = r.raised
  /\ result' = [fn |-> "save_session"]
  /\ UNCHANGED <<files, SENTENCES_CACHE, supabase, users, clock, st, msg,
                 returned, history, leaderboard, aliases, metadata>>

\* save_session once more, with the arguments of the call before
CallSaveAgain ==
  /\ call.fn = "save_session"
  /\ ~call.repeated
  /\ \E fails \in BOOLEAN :
       LET r == save_session(call.username, call.completed_sentences,
                             call.total_duration, fails)
       IN /\ call' = [call EXCEPT !.fails = fails, !.before = sessions,
                                  !.repeated = TRUE, !.after = LastWriter]
          /\ sessions' = r.sessions
          /\ printed' = r.printed
          /\ raised' = r.raised
  /\ UNCHANGED <<files, SENTENCES_CACHE, supabase, users, clock, st, msg,
                 returned, history, leaderboard, aliases,
                 metadata, result>>

InitStore ==
  /\ files = [c \in Countries |-> NoFile]
  /\ SENTENCES_CACHE = [c \in Countries |-> NotCached]
  /\ supabase \in BOOLEAN
  /\ users = [u \in Users |-> EG_CA]
  /\ sessions \in [Users -> StoredRows]
  /\ clock = 0
  /\ st = LoggedOut
  /\ msg = ""
  /\ printed = {}
  /\ raised = FALSE
  /\ returned = [u \in Users |-> {}]
  /\ history = NoHistory
  /\ leaderboard = <<>>
  /\ aliases = {}
  /\ metadata = NoMetadata
  /\ call = Idle
  /\ result = NoResult

NextStore == CallLoad \/ CallSave \/ CallSaveAgain \/ Tick

SpecStore == InitStore /\ [][NextStore]_vars

(***************************************************************************)
(* Sentence selection on its own: filter_sentences called with any         *)
(* dialect code, completed list and allow_fallback over any sentence       *)
(* file, followed by random.choice over what it returned.                  *)
(***************************************************************************)
CallFilter ==
  /\ \E d \in InputCodes, completed_ids \in CompletedLists, allow_fallback \in BOOLEAN :
       /\ call' = [fn |-> "filter_sentences", dialect_code |-> d,
                   completed_ids |-> completed_ids,
                   allow_fallback |-> allow_fallback]
       /\ result' = [fn |-> "filter_sentences",
                     available |-> filter_sentences(d, completed_ids, allow_fallback),
                     choice |-> 0]
       /\ SENTENCES_CACHE' = CacheAfterFilter(d)
       /\ files' = FilesAfterFilter(d)
  /\ UNCHANGED <<supabase, users, sessions, clock, st, msg, printed, raised,
                 returned, history, leaderboard, aliases, metadata>>

\* random.choice(available)
Choose ==
  /\ result.fn = "filter_sentences"
  /\ result.choice = 0
  /\ \E i \in 1..Len(result.available) : result' = [result EXCEPT !.choice = i]
  /\ UNCHANGED <<files, SENTENCES_CACHE, supabase, users, sessions, clock, st,
                 msg, printed, raised, returned, history, leaderboard, aliases,
                 metadata, call>>

InitSelect ==
  /\ \E pool \in Pools :
       files = [c \in Countries |-> IF c = EG THEN FileOf(pool) ELSE NoFile]
  /\ SENTENCES_CACHE = [c \in Countries |-> NotCached]
  /\ supabase = TRUE
  /\ users = [u \in Users |-> EG_CA]
  /\ sessions = [u \in Users |-> NewRow]
  /\ clock = 0
  /\ st = LoggedOut
  /\ msg = ""
  /\ printed = {}
  /\ raised = FALSE
  /\ returned = [u \in Users |-> {}]
  /\ history = NoHistory
  /\ leaderboard = <<>>
  /\ aliases = {}
  /\ metadata = NoMetadata
  /\ call = Idle
  /\ result = NoResult

NextSelect == CallFilter \/ Choose

SpecSelect == InitSelect /\ [][NextSelect]_vars

(***************************************************************************)
(* What the selection claims speak about.                                  *)
(***************************************************************************)
Selecting == call.fn = "filter_sentences"
Selected == Selecting /\ result.choice # 0

\* the dialect code d of the call, in normal form, and its fallback code
SelD == Normalized[call.dialect_code]
SelFallback == CountryOf[SelD] \o <<"-", "o", "t", "h">>
SelC == Range(call.completed_ids)

\* the sentences of the data source of d's country
SelPool == Range(files[CountryOf[SelD]].sentences)
TagsOf(sid) == UNION {Range(s.dialect) : s \in {x \in SelPool : x.unique_id = sid}}

\* some sentence not in C carries the code
Uncompleted(code) ==
  \E s \in SelPool : s.unique_id \notin SelC /\ code \in Range(s.dialect)

\* the entry random.choice drew
SelEntry == result.available[result.choice]


(***************************************************************************)
(* C1 as stated: a sentence produced by selection has an id that is not in *)
(* C and has d among its applicable dialects.                              *)
(***************************************************************************)
C1_SelectedCarriesD ==
  Selected => /\ SelEntry.sid \notin SelC
              /\ SelD \in TagsOf(SelEntry.sid)

(***************************************************************************)
(* C1, amended: a sentence produced by selection has an id that is not in  *)
(* C and has the dialect code it is returned with among its applicable     *)
(* dialects, that code being d or fallback_of(d).                          *)
(***************************************************************************)
C1_SelectedCarriesResolved ==
  Selected => /\ SelEntry.sid \notin SelC
              /\ SelEntry.dcode \in TagsOf(SelEntry.sid)
              /\ SelEntry.dcode \in {SelD, SelFallback}

\* a sentence of the fallback pool that does not carry d was selected while C
\* is not empty
C1_Witness ==
  /\ Selected
  /\ SelC # {}
  /\ SelEntry.dcode = SelFallback
  /\ SelD \notin TagsOf(SelEntry.sid)

(***************************************************************************)
(* C2: with fallback enabled, when no uncompleted sentence carries d, a    *)
(* selected sentence carries fallback_of(d), is not completed and is       *)
(* returned with the code fallback_of(d); when an uncompleted sentence     *)
(* carries d, the selected sentence is returned with the code d and        *)
(* carries d, so it is no fallback-only sentence.                          *)
(***************************************************************************)
C2_FallbackOnlyWhenExhausted ==
  (Selected /\ call.allow_fallback) =>
    IF Uncompleted(SelD)
      THEN /\ SelEntry.dcode = SelD
           /\ SelD \in TagsOf(SelEntry.sid)
      ELSE /\ SelEntry.dcode = SelFallback
           /\ SelFallback \in TagsOf(SelEntry.sid)
           /\ SelEntry.sid \notin SelC

\* select("eg-ca", [s1]) over {s1: [eg-ca], s2: [eg-oth]} returned s2 under eg-oth
C2_Witness ==
  /\ Selected
  /\ call.allow_fallback
  /\ call.dialect_code = EG_CA
  /\ call.completed_ids = <<"s1">>
  /\ files[EG].sentences = PoolOf(<<<<EG_CA>>, <<EG_OTH>>>>)
  /\ SelEntry.sid = "s2"
  /\ SelEntry.dcode = EG_OTH

(***************************************************************************)
(* C3 as stated: filter_sentences(d, C, allow_fallback=False) contains no  *)
(* sentence tagged with fallback_of(d), and is empty when no uncompleted   *)
(* sentence carries d.                                                     *)
(***************************************************************************)
C3_NoFallbackTagged ==
  (Selecting /\ ~call.allow_fallback) =>
    /\ \A i \in 1..Len(result.available) :
         SelFallback \notin TagsOf(result.available[i].sid)
    /\ ~Uncompleted(SelD) => result.available = <<>>

(***************************************************************************)
(* C3, amended: every entry of filter_sentences(d, C, allow_fallback=False)*)
(* is an uncompleted sentence that carries d itself and is returned with   *)
(* the code d, so a sentence is never returned for its fallback tag; and   *)
(* the list is empty when no uncompleted sentence carries d.               *)
(***************************************************************************)
C3_NoFallbackPick ==
  (Selecting /\ ~call.allow_fallback) =>
    /\ \A i \in 1..Len(result.available) :
         /\ result.available[i].dcode = SelD
         /\ SelD \in TagsOf(result.available[i].sid)
         /\ result.available[i].sid \notin SelC
    /\ ~Uncompleted(SelD) => result.available = <<>>

\* the primary pool is exhausted, the fallback pool is not, and the call
\* without fallback returned nothing
C3_Witness ==
  /\ Selecting
  /\ ~call.allow_fallback
  /\ SelD # SelFallback
  /\ ~Uncompleted(SelD)
  /\ Uncompleted(SelFallback)
  /\ result.available = <<>>


(***************************************************************************)
(* What the session claims speak about.                                    *)
(***************************************************************************)
IsPrefix(a, b) == Len(a) <= Len(b) /\ SubSeq(b, 1, Len(a)) = a
NoDuplicates(a) == Cardinality(Range(a)) = Len(a)

\* the sentences of the participant's country that carry the participant's
\* dialect code or its fallback code
PoolFor(s) ==
  LET d == Normalized[s.user_dialect_code]
      fb == CountryOf[d] \o <<"-", "o", "t", "h">>
  IN {x \in Range(files[CountryOf[d]].sentences) :
        d \in Range(x.dialect) \/ fb \in Range(x.dialect)}

\* every sentence of both pools is in the completed collection of state s
Exhausted(s) ==
  \A x \in PoolFor(s) : x.unique_id \in Range(s.completed_sentences)

\* the last handler was a save or a skip of a logged-in session
SaveSkipStatus ==
  {"saved", "skipped", "record_first", "empty_text", "no_active", "audio_bad",
   "save_error"}

(***************************************************************************)
(* C4: when every sentence tagged with the participant's dialect code or   *)
(* its fallback code is completed, login, save and skip leave the session  *)
(* with an empty current sentence id, a 'no more sentences' text and no    *)
(* exception.                                                              *)
(***************************************************************************)
C4_ExhaustedIsTerminal ==
  (st.logged_in /\ Exhausted(st)) =>
    /\ st.current_sentence_id = NoId
    /\ st.current_sentence_text \in {NoMore, NoMoreLogin}
    /\ ~raised

\* a save took the last sentence of a pool of two
C4_Witness ==
  /\ st.logged_in
  /\ msg = "saved"
  /\ Cardinality(PoolFor(st)) >= 2
  /\ Exhausted(st)

(***************************************************************************)
(* C5: over the saves and skips of one logged-in session the completed     *)
(* collection only grows, holds no id twice, and the total duration never  *)
(* decreases.                                                              *)
(***************************************************************************)
C5_SessionOnlyGrows ==
  [][(st.logged_in /\ st'.logged_in /\ msg' \in SaveSkipStatus) =>
       /\ IsPrefix(st.completed_sentences, st'.completed_sentences)
       /\ NoDuplicates(st'.completed_sentences)
       /\ st'.total_duration >= st.total_duration]_vars

\* two sentences were completed on top of a positive total
C5_Witness ==
  /\ st.logged_in
  /\ msg = "saved"
  /\ Len(st.completed_sentences) >= 2
  /\ st.total_duration >= 1

(***************************************************************************)
(* C6: whatever calls to the store fail, the stored session record of a    *)
(* participant never loses a completed id and its stored total duration    *)
(* never decreases.                                                        *)
(***************************************************************************)
C6_StoredNeverShrinks ==
  [][\A u \in Users :
       /\ Range(sessions[u].completed_sentences)
            \subseteq Range(sessions'[u].completed_sentences)
       /\ sessions'[u].total_recording_duration
            >= sessions[u].total_recording_duration]_vars

(***************************************************************************)
(* C7: every id in a participant's completed set, in the session and in    *)
(* the store, is an id that sentence selection returned for that           *)
(* participant before.                                                     *)
(***************************************************************************)
C7_CompletedWereReturned ==
  /\ \A u \in Users : Range(sessions[u].completed_sentences) \subseteq returned[u]
  /\ st.logged_in => Range(st.completed_sentences) \subseteq returned[st.username]

\* the session and the stored record both hold completed ids
C7_Witness ==
  /\ st.logged_in
  /\ Len(st.completed_sentences) >= 2
  /\ sessions[st.username].completed_sentences # <<>>

(***************************************************************************)
(* C8: when a save or skip that changed the session's completed set or     *)
(* total duration returns and its call to the store did not fail, the      *)
(* stored record of the participant holds the session's completed set and  *)
(* total duration.                                                         *)
(***************************************************************************)
C8_PersistedAfterMutation ==
  [][(/\ msg' \in {"saved", "skipped"}
      /\ st'.logged_in
      /\ \/ st'.completed_sentences # st.completed_sentences
         \/ st'.total_duration # st.total_duration
      /\ supabase
      /\ "save_session" \notin printed') =>
       /\ sessions'[st'.username].exists
       /\ sessions'[st'.username].completed_sentences = st'.completed_sentences
       /\ sessions'[st'.username].total_recording_duration = st'.total_duration]_vars

\* a save with a positive duration was persisted
C8_Witness ==
  /\ st.logged_in
  /\ msg = "saved"
  /\ printed = {}
  /\ st.total_duration >= 1
  /\ sessions[st.username].completed_sentences = st.completed_sentences
  /\ sessions[st.username].total_recording_duration = st.total_duration

(***************************************************************************)
(* C9 as stated, for two calls that both reach the store: a second         *)
(* save_session with the same participant id, completed ids and total      *)
(* duration leaves the stored state exactly as after the first call.       *)
(***************************************************************************)
SavedTwice == call.fn = "save_session" /\ call.repeated

C9_SecondSaveChangesNothing ==
  (SavedTwice /\ supabase /\ ~call.first_failed /\ ~call.fails) =>
    sessions = call.before

(***************************************************************************)
(* C9, amended: when the first of two save_session calls with the same     *)
(* arguments reached the store, the second leaves the stored completed ids *)
(* and total duration exactly as after the first; it may rewrite           *)
(* updated_at.                                                             *)
(***************************************************************************)
C9_SecondSaveKeepsProgress ==
  (SavedTwice /\ supabase /\ ~call.first_failed) =>
    /\ sessions[call.username].exists
    /\ sessions[call.username].completed_sentences
         = call.before[call.username].completed_sentences
    /\ sessions[call.username].total_recording_duration
         = call.before[call.username].total_recording_duration
    /\ sessions[call.username].completed_sentences = call.completed_sentences
    /\ sessions[call.username].total_recording_duration = call.total_duration

\* both calls reached the store, the second at a later time, with a positive
\* duration
C9_Witness ==
  /\ SavedTwice
  /\ supabase
  /\ ~call.first_failed
  /\ ~call.fails
  /\ call.total_duration >= 1
  /\ sessions[call.username].updated_at # call.before[call.username].updated_at

(***************************************************************************)
(* C10: load_session returns the empty completed list and duration zero    *)
(* when there is no record, when the store is not configured and when the  *)
(* lookup raises; save_session with the store unconfigured or failing      *)
(* leaves the stored records unchanged; neither raises.                    *)
(***************************************************************************)
C10_StoreNeverFailsCaller ==
  /\ call.fn = "load_session" =>
       /\ ~raised
       /\ sessions = call.before
       /\ (~supabase \/ call.fails \/ ~call.before[call.username].exists) =>
            /\ result.completed_sentences = <<>>
            /\ result.total_recording_duration = 0
  /\ call.fn = "save_session" =>
       /\ ~raised
       /\ (~supabase \/ call.fails) => sessions = call.before

\* a failing upsert met a stored row that differs from what was submitted
C10_Witness ==
  /\ call.fn = "save_session"
  /\ supabase
  /\ call.fails
  /\ sessions[call.username].completed_sentences # <<>>
  /\ sessions[call.username].completed_sentences # call.completed_sentences

(***************************************************************************)
(* The browser session with its history: which calls to the session store  *)
(* reached it, read off what the handlers printed, and what the session    *)
(* held when it was logged out.                                            *)
(***************************************************************************)
Track ==
  history' =
    CASE msg' = "login_ok" ->
           [history EXCEPT !.loaded = "load_session" \notin printed',
                           !.saved = TRUE]
      [] msg' \in {"saved", "skipped"} ->
           [history EXCEPT !.saved = @ /\ "save_session" \notin printed',
                           !.prev = NoPrev]
      [] msg' = "logged_out" /\ st.logged_in ->
           [loaded |-> TRUE, saved |-> TRUE,
            prev |-> [left |-> TRUE,
                      completed_sentences |-> st.completed_sentences,
                      total_duration |-> st.total_duration,
                      loaded |-> history.loaded, saved |-> history.saved]]
      [] OTHER -> history

\* a registered participant, the store configured, the longest sentence file
InitResume ==
  /\ files = [c \in Countries |->
                IF c = EG THEN FileOf(PoolOf(SubSeq(MasterTags, 1, MaxSessionPool)))
                ELSE NoFile]
  /\ SENTENCES_CACHE = [c \in Countries |-> NotCached]
  /\ supabase = TRUE
  /\ users \in [Users -> ParticipantCodes]
  /\ sessions \in [Users -> {NoRow, NewRow}]
  /\ clock = 0
  /\ st = LoggedOut
  /\ msg = ""
  /\ printed = {}
  /\ raised = FALSE
  /\ returned = [u \in Users |-> {}]
  /\ history = NoHistory
  /\ leaderboard = <<>>
  /\ aliases = {}
  /\ metadata = NoMetadata
  /\ call = Idle
  /\ result = NoResult

NextResume ==
  \/ do_login /\ Track /\ UNCHANGED <<leaderboard, aliases, metadata>>
  \/ handle_save /\ Track /\ UNCHANGED <<leaderboard, aliases, metadata>>
  \/ handle_skip /\ Track /\ UNCHANGED <<leaderboard, aliases, metadata>>
  \/ do_logout /\ Track /\ UNCHANGED <<leaderboard, aliases, metadata>>

SpecResume == InitResume /\ [][NextResume]_vars

(***************************************************************************)
(* What the resumption claim speaks about: a login that follows the logout *)
(* of a session, before the new session saves or skips.                    *)
(***************************************************************************)
Resumed == st.logged_in /\ history.prev.left

\* the session holds what the session before held, and offers another sentence
HoldsPrevious ==
  /\ st.completed_sentences = history.prev.completed_sentences
  /\ st.total_duration = history.prev.total_duration
  /\ st.current_sentence_id \notin Range(st.completed_sentences)

(***************************************************************************)
(* C11 as stated: if every save succeeded, then after logout followed by   *)
(* login the session holds the completed set and total duration it held    *)
(* just before logout, and the sentence offered is not a completed one.    *)
(***************************************************************************)
C11_ResumesAfterSaves ==
  (Resumed /\ history.prev.saved) => HoldsPrevious

(***************************************************************************)
(* C11, amended: if every call to the session store succeeded, the session *)
(* lookups of both logins as well as every save, then after logout         *)
(* followed by login the session holds the completed set and total         *)
(* duration it held just before logout, and the sentence offered is not a  *)
(* completed one.                                                          *)
(***************************************************************************)
C11_ResumesAfterStoreCalls ==
  (Resumed /\ history.prev.saved /\ history.prev.loaded /\ history.loaded) =>
    HoldsPrevious

\* a session with two completed sentences and a positive total was resumed
C11_Witness ==
  /\ Resumed
  /\ history.prev.saved /\ history.prev.loaded /\ history.loaded
  /\ Len(st.completed_sentences) >= 2
  /\ st.total_duration >= 1
  /\ msg = "login_ok"

(***************************************************************************)
(* C12: a save_session that reaches the store leaves, for its participant, *)
(* exactly the completed list and total duration it submitted, whatever    *)
(* the record held before and whichever session wrote it; other            *)
(* participants' records are untouched.                                    *)
(***************************************************************************)
C12_LastWriteWins ==
  (call.fn = "save_session" /\ supabase /\ ~call.fails) =>
    /\ sessions[call.username].exists
    /\ sessions[call.username].completed_sentences = call.completed_sentences
    /\ sessions[call.username].total_recording_duration = call.total_duration
    /\ \A u \in Users \ {call.username} : sessions[u] = call.before[u]

\* a session saved [s2] with no duration over the [s1] and one second another
\* session had stored: s1 and the second are gone
C12_Witness ==
  /\ call.fn = "save_session" /\ supabase /\ ~call.fails
  /\ call.after # 0
  /\ call.after # call.session
  /\ call.before[call.username].completed_sentences = <<"s1">>
  /\ call.before[call.username].total_recording_duration = 1
  /\ call.completed_sentences = <<"s2">>
  /\ call.total_duration = 0
  /\ sessions[call.username].completed_sentences = <<"s2">>

(***************************************************************************)
(* The sentence cache on its own: load_sentences_for_country and           *)
(* filter_sentences called for any country, one call after the other,      *)
(* while the sentence files may be replaced on disk between two calls.     *)
(* `call.cached_before` and `call.file_before` are the cache entry and the *)
(* file the call found.                                                    *)
(***************************************************************************)
CallLoadSentences ==
  /\ \E country_code \in Countries :
       /\ call' = [fn |-> "load_sentences_for_country",
                   country_code |-> country_code,
                   cached_before |-> SENTENCES_CACHE[country_code],
                   file_before |-> files[country_code]]
       /\ result' = [fn |-> "load_sentences_for_country",
                     sentences |-> load_sentences_for_country(country_code)]
       /\ SENTENCES_CACHE' = CacheAfterLoad(country_code)
       /\ files' = FilesAfterLoad(country_code)
  /\ raised' = FALSE
  /\ UNCHANGED <<supabase, users, sessions, clock, st, msg, printed, returned,
                 history, leaderboard, aliases, metadata>>

\* sentences_eg.json is replaced on disk
EditFile ==
  /\ \E country_code \in {EG}, pool \in SessionPools :
       /\ files[country_code] # FileOf(pool)
       /\ files' = [files EXCEPT ![country_code] = FileOf(pool)]
  /\ UNCHANGED <<SENTENCES_CACHE, supabase, users, sessions, clock, st, msg,
                 printed, raised, returned, history, leaderboard, aliases,
                 metadata, call, result>>

InitCache ==
  /\ \E egypt \in {NoFile, FileOf(PoolOf(SubSeq(MasterTags, 1, 1)))} :
       files = [c \in Countries |-> IF c = EG THEN egypt ELSE NoFile]
  /\ SENTENCES_CACHE = [c \in Countries |-> NotCached]
  /\ supabase = TRUE
  /\ users = [u \in Users |-> EG_CA]
  /\ sessions = [u \in Users |-> NewRow]
  /\ clock = 0
  /\ st = LoggedOut
  /\ msg = ""
  /\ printed = {}
  /\ raised = FALSE
  /\ returned = [u \in Users |-> {}]
  /\ history = NoHistory
  /\ leaderboard = <<>>
  /\ aliases = {}
  /\ metadata = NoMetadata
  /\ call = Idle
  /\ result = NoResult

NextCache == CallLoadSentences \/ CallFilter \/ EditFile

SpecCache == InitCache /\ [][NextCache]_vars

Loaded == call.fn = "load_sentences_for_country"

(***************************************************************************)
(* C13: once a country is cached, no operation changes its cache entry,    *)
(* and every later load_sentences_for_country for it returns the cached    *)
(* list and leaves the files alone, whatever the file holds by then.       *)
(***************************************************************************)
C13_CachedLoadsAreStable ==
  [][/\ \A c \in Countries :
          SENTENCES_CACHE[c].cached => SENTENCES_CACHE'[c] = SENTENCES_CACHE[c]
     /\ (/\ call' # call
         /\ call'.fn = "load_sentences_for_country"
         /\ SENTENCES_CACHE[call'.country_code].cached) =>
          /\ result'.sentences = SENTENCES_CACHE[call'.country_code].sentences
          /\ files' = files]_vars

\* a cached country was loaded again after its file had been replaced, and
\* the call returned the list cached before
C13_Witness ==
  /\ Loaded
  /\ call.cached_before.cached
  /\ call.cached_before.sentences # <<>>
  /\ files[call.country_code].sentences # call.cached_before.sentences
  /\ result.sentences = call.cached_before.sentences

(***************************************************************************)
(* C14: for a country with no sentence file, load_sentences_for_country    *)
(* returns the empty list without raising, leaves an empty placeholder     *)
(* file for the country and caches the empty list; and a load of a country *)
(* cached as empty returns the empty list again.                           *)
(***************************************************************************)
C14_MissingFileLoadsEmpty ==
  [][(call' # call /\ call'.fn = "load_sentences_for_country") =>
       LET c == call'.country_code
       IN /\ (~SENTENCES_CACHE[c].cached /\ ~files[c].exists) =>
               /\ result'.sentences = <<>>
               /\ ~raised'
               /\ files'[c] = FileOf(<<>>)
               /\ SENTENCES_CACHE'[c] = [cached |-> TRUE, sentences |-> <<>>]
          /\ SENTENCES_CACHE[c] = [cached |-> TRUE, sentences |-> <<>>] =>
               /\ result'.sentences = <<>>
               /\ ~raised'
               /\ SENTENCES_CACHE'[c] = SENTENCES_CACHE[c]]_vars

\* the first load of a country without a file returned the empty list and
\* left the placeholder and the cached empty list
C14_Witness ==
  /\ Loaded
  /\ ~call.cached_before.cached
  /\ ~call.file_before.exists
  /\ result.sentences = <<>>
  /\ files[call.country_code] = FileOf(<<>>)
  /\ SENTENCES_CACHE[call.country_code] = [cached |-> TRUE, sentences |-> <<>>]

(***************************************************************************)
(* load_sentences_for_country called by several requests at once for the   *)
(* same country, each request a thread of the server taking the function's *)
(* steps one at a time.  Path.write_text opens the file for writing, which *)
(* creates or empties it, and writes the text afterwards.                  *)
(* `call.pc[r]` is where request r stands, `call.data[r]` what it read,    *)
(* `call.initial` the file before the first request.                       *)
(***************************************************************************)
Requests == 1..MaxRequests

\* what the steps of load_sentences_for_country leave alone
SessionVars ==
  <<supabase, users, sessions, clock, st, msg, printed, returned, history, leaderboard, aliases, metadata>>

NotReturned == [done |-> FALSE, sentences |-> <<>>]

AtStep(r, step) == call.fn = "requests" /\ call.pc[r] = step

Goto(r, step) == call' = [call EXCEPT !.pc[r] = step]

\* if country_code in SENTENCES_CACHE: return SENTENCES_CACHE[country_code]
CheckCache(r) ==
  /\ AtStep(r, "start")
  /\ IF SENTENCES_CACHE[call.country_code].cached
       THEN /\ Goto(r, "done")
            /\ result' = [result EXCEPT !.returned[r] =
                            [done |-> TRUE,
                             sentences |-> SENTENCES_CACHE[call.country_code].sentences]]
       ELSE /\ Goto(r, "exists")
            /\ UNCHANGED result
  /\ UNCHANGED <<files, SENTENCES_CACHE, raised>>
  /\ UNCHANGED SessionVars

\* if not path.exists():
CheckExists(r) ==
  /\ AtStep(r, "exists")
  /\ Goto(r, IF files[call.country_code].exists THEN "read" ELSE "open")
  /\ UNCHANGED <<files, SENTENCES_CACHE, raised, result>>
  /\ UNCHANGED SessionVars

\* path.write_text(...): the file is opened for writing
OpenPlaceholder(r) ==
  /\ AtStep(r, "open")
  /\ files' = [files EXCEPT ![call.country_code] = Truncated]
  /\ Goto(r, "write")
  /\ UNCHANGED <<SENTENCES_CACHE, raised, result>>
  /\ UNCHANGED SessionVars

\* path.write_text(...): {"sentences": []} is written and the file closed
WritePlaceholder(r) ==
  /\ AtStep(r, "write")
  /\ files' = [files EXCEPT ![call.country_code] = FileOf(<<>>)]
  /\ Goto(r, "read")
  /\ UNCHANGED <<SENTENCES_CACHE, raised, result>>
  /\ UNCHANGED SessionVars

\* data = json.loads(path.read_text(...)): raises on a text that is no JSON
ReadFile(r) ==
  /\ AtStep(r, "read")
  /\ IF files[call.country_code].json
       THEN /\ call' = [call EXCEPT !.pc[r] = "store",
                                    !.data[r] = files[call.country_code].sentences]
            /\ UNCHANGED raised
       ELSE /\ Goto(r, "failed")
            /\ raised' = TRUE
  /\ UNCHANGED <<files, SENTENCES_CACHE, result>>
  /\ UNCHANGED SessionVars

\* SENTENCES_CACHE[country_code] = [...]; return SENTENCES_CACHE[country_code]
StoreCache(r) ==
  /\ AtStep(r, "store")
  /\ SENTENCES_CACHE' = [SENTENCES_CACHE EXCEPT ![call.country_code] =
                           [cached |-> TRUE, sentences |-> call.data[r]]]
  /\ result' = [result EXCEPT !.returned[r] =
                  [done |-> TRUE, sentences |-> call.data[r]]]
  /\ Goto(r, "done")
  /\ UNCHANGED <<files, raised>>
  /\ UNCHANGED SessionVars

InitLoad ==
  /\ \E country_code \in {EG, UNK}, egypt \in {NoFile} \cup {FileOf(p) : p \in SessionPools} :
       /\ files = [c \in Countries |-> IF c = EG THEN egypt ELSE NoFile]
       /\ call = [fn |-> "requests", country_code |-> country_code,
                  initial |-> IF country_code = EG THEN egypt ELSE NoFile,
                  pc |-> [r \in Requests |-> "start"],
                  data |-> [r \in Requests |-> <<>>]]
  /\ result = [fn |-> "requests", returned |-> [r \in Requests |-> NotReturned]]
  /\ SENTENCES_CACHE = [c \in Countries |-> NotCached]
  /\ supabase = TRUE
  /\ users = [u \in Users |-> EG_CA]
  /\ sessions = [u \in Users |-> NewRow]
  /\ clock = 0
  /\ st = LoggedOut
  /\ msg = ""
  /\ printed = {}
  /\ raised = FALSE
  /\ returned = [u \in Users |-> {}]
  /\ history = NoHistory
  /\ leaderboard = <<>>
  /\ aliases = {}
  /\ metadata = NoMetadata

NextLoad ==
  \/ \E r \in Requests : CheckCache(r)
  \/ \E r \in Requests : CheckExists(r)
  \/ \E r \in Requests : OpenPlaceholder(r)
  \/ \E r \in Requests : WritePlaceholder(r)
  \/ \E r \in Requests : ReadFile(r)
  \/ \E r \in Requests : StoreCache(r)

SpecLoad == InitLoad /\ [][NextLoad]_vars

\* what one load on its own returns for a file
Sequential(file) == IF file.exists THEN file.sentences ELSE <<>>

\* the cache entry of the country, once there is one, is what one load on
\* its own would have cached, and so is what every request returned
CacheConverges ==
  /\ SENTENCES_CACHE[call.country_code].cached =>
       SENTENCES_CACHE[call.country_code].sentences = Sequential(call.initial)
  /\ \A r \in Requests :
       result.returned[r].done =>
         result.returned[r].sentences = Sequential(call.initial)

(***************************************************************************)
(* C15 as stated: when several requests load the same uncached country at  *)
(* the same time, in every interleaving of their steps none of them fails  *)
(* and the cache holds what a single load would have produced.             *)
(***************************************************************************)
C15_ConcurrentLoadsSucceed ==
  /\ \A r \in Requests : call.pc[r] # "failed"
  /\ CacheConverges

(***************************************************************************)
(* The dialect code functions on their own: split_dialect_code and         *)
(* get_fallback_dialect_code called with any text of up to MaxLen          *)
(* characters (None and "" are both the empty text), and                   *)
(* split_dialect_code called again with the two parts joined by "-".       *)
(***************************************************************************)
Alphabet == {"e", "G", "-", " "}

Texts == UNION {[1..n -> Alphabet] : n \in 0..MaxLen}

CallSplit ==
  /\ \E dialect_code \in Texts :
       /\ call' = [fn |-> "split_dialect_code", dialect_code |-> dialect_code,
                   rejoined |-> FALSE, first |-> <<>>]
       /\ result' = [fn |-> "split_dialect_code",
                     parts |-> split_dialect_code(dialect_code),
                     fallback |-> get_fallback_dialect_code(dialect_code)]
  /\ UNCHANGED <<files, SENTENCES_CACHE, raised>>
  /\ UNCHANGED SessionVars

\* split_dialect_code("-".join(parts)) on the parts of the call before
CallSplitAgain ==
  /\ call.fn = "split_dialect_code"
  /\ ~call.rejoined
  /\ LET joined == result.parts[1] \o <<"-">> \o result.parts[2]
     IN /\ call' = [fn |-> "split_dialect_code", dialect_code |-> joined,
                    rejoined |-> TRUE, first |-> result.parts]
        /\ result' = [fn |-> "split_dialect_code",
                      parts |-> split_dialect_code(joined),
                      fallback |-> get_fallback_dialect_code(joined)]
  /\ UNCHANGED <<files, SENTENCES_CACHE, raised>>
  /\ UNCHANGED SessionVars

InitDialect ==
  /\ files = [c \in Countries |-> NoFile]
  /\ SENTENCES_CACHE = [c \in Countries |-> NotCached]
  /\ supabase = TRUE
  /\ users = [u \in Users |-> EG_CA]
  /\ sessions = [u \in Users |-> NewRow]
  /\ clock = 0
  /\ st = LoggedOut
  /\ msg = ""
  /\ printed = {}
  /\ raised = FALSE
  /\ returned = [u \in Users |-> {}]
  /\ history = NoHistory
  /\ leaderboard = <<>>
  /\ aliases = {}
  /\ metadata = NoMetadata
  /\ call = Idle
  /\ result = NoResult

NextDialect == CallSplit \/ CallSplitAgain

SpecDialect == InitDialect /\ [][NextDialect]_vars

Split == call.fn = "split_dialect_code"

\* d without its first i and last j characters, in lower case
Inner(d, i, j) ==
  [k \in 1..(Len(d) - i - j) |-> IF d[i + k] = "G" THEN "g" ELSE d[i + k]]

\* the first i and the last j characters of d are the spaces around it
IsTrim(d, i, j) ==
  /\ i + j <= Len(d)
  /\ \A k \in 1..i : d[k] = " "
  /\ \A k \in (Len(d) - j + 1)..Len(d) : d[k] = " "
  /\ i + j < Len(d) => (d[i + 1] # " " /\ d[Len(d) - j] # " ")

\* <<country, subtag>> are the parts of n around its first "-", the subtag
\* "gen" when n has none
IsSplitOf(country, subtag, n) ==
  IF "-" \in Range(n)
    THEN /\ country \o <<"-">> \o subtag = n
         /\ "-" \notin Range(country)
    ELSE /\ country = n
         /\ subtag = <<"g", "e", "n">>

(***************************************************************************)
(* C16: split_dialect_code returns, for every text, the parts around the   *)
(* first "-" of the trimmed, lowercased text, "unk-gen" standing for an    *)
(* empty one and "gen" for a missing subtag; get_fallback_dialect_code     *)
(* returns that country followed by "-oth".                                *)
(***************************************************************************)
C16_SplitFollowsRules ==
  Split =>
    /\ Len(result.parts) = 2
    /\ \E i, j \in 0..Len(call.dialect_code) :
         /\ IsTrim(call.dialect_code, i, j)
         /\ LET n == Inner(call.dialect_code, i, j)
            IN IsSplitOf(result.parts[1], result.parts[2],
                         IF n = <<>> THEN <<"u", "n", "k", "-", "g", "e", "n">>
                         ELSE n)
    /\ result.fallback = result.parts[1] \o <<"-", "o", "t", "h">>

\* " G-" was split into "g" and the empty subtag
C16_Witness ==
  /\ Split
  /\ call.dialect_code = <<" ", "G", "-">>
  /\ result.parts = <<<<"g">>, <<>>>>
  /\ result.fallback = <<"g", "-", "o", "t", "h">>

(***************************************************************************)
(* C17: joining the parts split_dialect_code returned with "-" and         *)
(* splitting the result again yields the same parts.                       *)
(***************************************************************************)
C17_SplitJoinSplit ==
  (Split /\ call.rejoined) => result.parts = call.first

\* a code without a separator came back as itself and "gen" from "<code>-gen"
C17_Witness ==
  /\ Split
  /\ call.rejoined
  /\ call.first = <<<<"g", "e">>, <<"g", "e", "n">>>>
  /\ call.dialect_code = <<"g", "e", "-", "g", "e", "n">>
  /\ result.parts = call.first

(***************************************************************************)
(* C18 as stated: the country split_dialect_code returns, which            *)
(* get_fallback_dialect_code and filter_sentences use, is never the empty  *)
(* text, also for a text that starts with "-".                             *)
(***************************************************************************)
C18_CountryNeverEmpty ==
  Split => result.parts[1] # <<>>

(***************************************************************************)
(* make_progress_bar on its own, called with any duration, target and bar  *)
(* length.  The ratio is the fraction num / den; of the text returned the  *)
(* model keeps the filled and the empty cells of the bar.                  *)
(***************************************************************************)
bar_length_default == 24

BarLengths == {0, MaxTarget - 1, bar_length_default}

Min(a, b) == IF a < b THEN a ELSE b
Max(a, b) == IF a > b THEN a ELSE b

\* int(bar_length * ratio): the product of the two floats is the exact value
\* or, when that is a whole number k of a ratio below one, possibly just
\* under k
FilledCells(bar_length, ratio) ==
  LET exact == (bar_length * ratio.num) \div ratio.den
  IN IF /\ ratio.num < ratio.den
        /\ exact >= 1
        /\ (bar_length * ratio.num) % ratio.den = 0
       THEN {exact, exact - 1}
       ELSE {exact}

\* make_progress_bar without the min(1.0, ...) of its ratio
make_progress_bar_uncapped(current_seconds, target_seconds, bar_length) ==
  IF target_seconds <= 0
    THEN [ratio |-> [num |-> 0, den |-> 1], filled |-> {0}]
    ELSE LET ratio == [num |-> Max(0, current_seconds), den |-> target_seconds]
         IN [ratio |-> ratio, filled |-> FilledCells(bar_length, ratio)]

\* the ratio make_progress_bar computes and the cells it may fill
make_progress_bar(current_seconds, target_seconds, bar_length) ==
  IF target_seconds <= 0
    THEN [ratio |-> [num |-> 0, den |-> 1], filled |-> {0}]
    ELSE LET ratio == [num |-> Max(0, Min(target_seconds, current_seconds)),
                       den |-> target_seconds]
         IN [ratio |-> ratio, filled |-> FilledCells(bar_length, ratio)]

CallProgressBar ==
  /\ \E current_seconds \in -1..MaxSeconds, target_seconds \in -1..MaxTarget,
        bar_length \in BarLengths :
       LET r == make_progress_bar(current_seconds, target_seconds, bar_length)
       IN \E filled \in r.filled :
            /\ call' = [fn |-> "make_progress_bar",
                        current_seconds |-> current_seconds,
                        target_seconds |-> target_seconds,
                        bar_length |-> bar_length]
            /\ result' = [fn |-> "make_progress_bar", ratio |-> r.ratio,
                          filled |-> filled, empty |-> bar_length - filled]
            /\ raised' = (r.ratio.den = 0)
  /\ UNCHANGED <<files, SENTENCES_CACHE>>
  /\ UNCHANGED SessionVars

InitProgress ==
  /\ files = [c \in Countries |-> NoFile]
  /\ SENTENCES_CACHE = [c \in Countries |-> NotCached]
  /\ supabase = TRUE
  /\ users = [u \in Users |-> EG_CA]
  /\ sessions = [u \in Users |-> NewRow]
  /\ clock = 0
  /\ st = LoggedOut
  /\ msg = ""
  /\ printed = {}
  /\ raised = FALSE
  /\ returned = [u \in Users |-> {}]
  /\ history = NoHistory
  /\ leaderboard = <<>>
  /\ aliases = {}
  /\ metadata = NoMetadata
  /\ call = Idle
  /\ result = NoResult

NextProgress == CallProgressBar

SpecProgress == InitProgress /\ [][NextProgress]_vars

(***************************************************************************)
(* C19: for a positive target the ratio of make_progress_bar is            *)
(* current/target clamped to [0, 1]; for a target of zero or less it is 0; *)
(* nothing is divided by zero; and the filled cells of the bar are between *)
(* 0 and bar_length.                                                       *)
(***************************************************************************)
C19_RatioIsClamped ==
  call.fn = "make_progress_bar" =>
    LET c == call.current_seconds
        t == call.target_seconds
        num == result.ratio.num
        den == result.ratio.den
    IN /\ ~raised
       /\ den > 0
       /\ 0 <= num /\ num <= den
       /\ t <= 0 => num = 0
       /\ t > 0 => /\ c <= 0 => num = 0
                   /\ c >= t => num = den
                   /\ (0 < c /\ c < t) => num * t = c * den
       /\ 0 <= result.filled /\ result.filled <= call.bar_length
       /\ result.filled + result.empty = call.bar_length

\* a duration above the target filled the whole bar
C19_Witness ==
  /\ call.fn = "make_progress_bar"
  /\ call.target_seconds > 0
  /\ call.current_seconds > call.target_seconds
  /\ call.bar_length = bar_length_default
  /\ result.ratio.num = result.ratio.den
  /\ result.filled = call.bar_length

(***************************************************************************)
(* get_user_rank_country on its own, over any leaderboard table: Egyptian  *)
(* rows of up to three participants and a Saudi row of a fourth, and       *)
(* called a second time for another participant of the table.              *)
(***************************************************************************)
RowKeys ==
  <<[country_code |-> EG, username |-> "u1"],
    [country_code |-> EG, username |-> "u2"],
    [country_code |-> EG, username |-> "u3"],
    [country_code |-> SA, username |-> "u4"]>>

Absent == -1

\* the table holding, in the order of RowKeys, a row for every key with a time
TableOf(times) ==
  LET Present(i) == times[i] # Absent
      Row(i) == [country_code |-> RowKeys[i].country_code,
                 username |-> RowKeys[i].username,
                 time_seconds |-> times[i]]
      RECURSIVE Rows(_)
      Rows(i) == IF i > Len(RowKeys) THEN <<>>
                 ELSE IF Present(i) THEN <<Row(i)>> \o Rows(i + 1)
                 ELSE Rows(i + 1)
  IN Rows(1)

Tables == {TableOf(times) : times \in [1..Len(RowKeys) -> Absent..MaxTime]}

\* .eq("country_code", country_code).eq("username", username).limit(1)
RowsOf(rows, country_code, username) ==
  LET Mine(row) == row.country_code = country_code /\ row.username = username
  IN SelectSeq(rows, Mine)

\* count="exact" of .eq("country_code", country_code).gt("time_seconds", seconds)
RECURSIVE CountHigher(_, _, _)
CountHigher(rows, country_code, seconds) ==
  IF rows = <<>> THEN 0
  ELSE (IF Head(rows).country_code = country_code /\ Head(rows).time_seconds > seconds
          THEN 1 ELSE 0)
       + CountHigher(Tail(rows), country_code, seconds)

\* count="exact" of .gte in the place of .gt
RECURSIVE CountHigherOrEqual(_, _, _)
CountHigherOrEqual(rows, country_code, seconds) ==
  IF rows = <<>> THEN 0
  ELSE (IF Head(rows).country_code = country_code /\ Head(rows).time_seconds >= seconds
          THEN 1 ELSE 0)
       + CountHigherOrEqual(Tail(rows), country_code, seconds)

NoRank == [found |-> FALSE, rank |-> 0, printed |-> {}]

\* get_user_rank_country counting the rows with at least the participant's time
get_user_rank_country_gte(rows, country_code, username, failMe, failHigher) ==
  IF ~supabase THEN NoRank
  ELSE IF failMe THEN [NoRank EXCEPT !.printed = {"get_user_rank_country"}]
  ELSE LET me == RowsOf(rows, country_code, username)
       IN IF me = <<>> THEN NoRank
          ELSE IF failHigher
            THEN [NoRank EXCEPT !.printed = {"get_user_rank_country"}]
          ELSE [found |-> TRUE,
                rank |-> CountHigherOrEqual(rows, country_code,
                                            me[1].time_seconds) + 1,
                printed |-> {}]

\* get_user_rank_country over the table `rows`: None (found FALSE) or the
\* rank; failMe and failHigher say that the first or the second query raises
get_user_rank_country(rows, country_code, username, failMe, failHigher) ==
  IF ~supabase THEN NoRank
  ELSE IF failMe THEN [NoRank EXCEPT !.printed = {"get_user_rank_country"}]
  ELSE LET me == RowsOf(rows, country_code, username)
       IN IF me = <<>> THEN NoRank
          ELSE IF failHigher
            THEN [NoRank EXCEPT !.printed = {"get_user_rank_country"}]
          ELSE [found |-> TRUE,
                rank |-> CountHigher(rows, country_code,
                                     me[1].time_seconds) + 1,
                printed |-> {}]

NoEarlier == [found |-> FALSE, country_code |-> <<>>, username |-> "", rank |-> 0]

RankCall(country_code, username, earlier) ==
  \E failMe \in BOOLEAN :
    \E failHigher \in (IF supabase /\ ~failMe /\ RowsOf(leaderboard, country_code, username) # <<>>
                         THEN BOOLEAN ELSE {FALSE}) :
      LET r == get_user_rank_country(leaderboard, country_code, username,
                                     failMe, failHigher)
      IN /\ call' = [fn |-> "get_user_rank_country",
                     country_code |-> country_code, username |-> username,
                     failed |-> failMe \/ failHigher, earlier |-> earlier]
         /\ result' = [fn |-> "get_user_rank_country", found |-> r.found,
                       rank |-> r.rank]
         /\ printed' = r.printed
         /\ raised' = FALSE

CallRank ==
  /\ \E i \in 1..Len(RowKeys) :
       RankCall(RowKeys[i].country_code, RowKeys[i].username, NoEarlier)
  /\ UNCHANGED <<files, SENTENCES_CACHE, supabase, users, sessions, clock, st,
                 msg, returned, history, leaderboard, aliases, metadata>>

\* the rank of another participant, asked after the call before returned one
CallRankOther ==
  /\ call.fn = "get_user_rank_country"
  /\ ~call.earlier.found
  /\ result.found
  /\ \E i \in 1..Len(RowKeys) :
       /\ RowKeys[i].username # call.username
       /\ RankCall(RowKeys[i].country_code, RowKeys[i].username,
                   [found |-> TRUE, country_code |-> call.country_code,
                    username |-> call.username, rank |-> result.rank])
  /\ UNCHANGED <<files, SENTENCES_CACHE, supabase, users, sessions, clock, st,
                 msg, returned, history, leaderboard, aliases, metadata>>

InitRank ==
  /\ leaderboard \in Tables
  /\ aliases = {}
  /\ metadata = NoMetadata
  /\ supabase \in BOOLEAN
  /\ files = [c \in Countries |-> NoFile]
  /\ SENTENCES_CACHE = [c \in Countries |-> NotCached]
  /\ users = [u \in Users |-> EG_CA]
  /\ sessions = [u \in Users |-> NewRow]
  /\ clock = 0
  /\ st = LoggedOut
  /\ msg = ""
  /\ printed = {}
  /\ raised = FALSE
  /\ returned = [u \in Users |-> {}]
  /\ history = NoHistory
  /\ call = Idle
  /\ result = NoResult

NextRank == CallRank \/ CallRankOther

SpecRank == InitRank /\ [][NextRank]_vars

Ranked == call.fn = "get_user_rank_country"

\* the rows of the country, and the time of a participant in it
CountryRows(country_code) ==
  {i \in 1..Len(leaderboard) : leaderboard[i].country_code = country_code}

TimeOf(country_code, username) ==
  LET i == CHOOSE i \in CountryRows(country_code) :
             leaderboard[i].username = username
  IN leaderboard[i].time_seconds

HasRow(country_code, username) ==
  \E i \in CountryRows(country_code) : leaderboard[i].username = username

(***************************************************************************)
(* C20: the rank get_user_rank_country returns is one plus the number of   *)
(* rows of the same country with a strictly greater time; it is returned   *)
(* whenever the participant has a row and both queries succeed; it is 1    *)
(* for a participant whose time is above all others of the country; and    *)
(* two participants of a country with equal times get the same rank.       *)
(***************************************************************************)
C20_RankCountsStrictlyHigher ==
  Ranked =>
    LET cc == call.country_code
        u == call.username
    IN /\ result.found <=> (supabase /\ ~call.failed /\ HasRow(cc, u))
       /\ result.found =>
            /\ result.rank =
                 1 + Cardinality({i \in CountryRows(cc) :
                                    leaderboard[i].time_seconds > TimeOf(cc, u)})
            /\ (\A i \in CountryRows(cc) :
                   leaderboard[i].username # u =>
                     leaderboard[i].time_seconds < TimeOf(cc, u)) =>
                 result.rank = 1
            /\ (/\ call.earlier.found
                /\ call.earlier.country_code = cc
                /\ TimeOf(cc, call.earlier.username) = TimeOf(cc, u)) =>
                 result.rank = call.earlier.rank

\* two participants share the second place behind a third, with a row of
\* another country above them all
C20_Witness ==
  /\ Ranked
  /\ result.found
  /\ call.earlier.found
  /\ call.earlier.country_code = call.country_code
  /\ call.earlier.username # call.username
  /\ result.rank = 2
  /\ call.earlier.rank = 2
  /\ Cardinality(CountryRows(call.country_code)) = 3
  /\ \E i \in 1..Len(leaderboard) :
       /\ leaderboard[i].country_code # call.country_code
       /\ leaderboard[i].time_seconds > TimeOf(call.country_code, call.username)

(***************************************************************************)
(* The leaderboard aliases.                                                *)
(***************************************************************************)
\* len(AR_EMOJIS), len(AR_NOUNS), len(AR_ADJECTIVES)
EmojiCount == 10
NounCount == 13
AdjectiveCount == 20

\* the participants of the leaderboard: "u1" and three others
Participants == {RowKeys[i].username : i \in 1..Len(RowKeys)}

\* get_country_code_from_dialect_code
get_country_code_from_dialect_code(dialect_code) ==
  LET country == split_dialect_code(dialect_code)[1]
  IN IF country = <<>> THEN UNK ELSE country

\* (country_code or "unk").lower()
CountryKey(country_code) == IF country_code = <<>> THEN UNK ELSE Lower(country_code)

\* f"{username}|{country_code}|lifetime_leaderboard_ar"
SeedOf(username, country_code) == <<username, country_code>>

\* int(sha256(text).hexdigest()[:12], 16) of the seed followed by a suffix.
\* SHA-256 is not computed: a fixed number stands for the digest of each text,
\* another one for another username, country code or suffix.
Digest(seed, suffix) ==
  LET UserNo == CHOOSE i \in 1..Len(RowKeys) : RowKeys[i].username = seed[1]
      RECURSIVE Weigh(_)
      Weigh(t) == IF t = <<>> THEN 0
                  ELSE (CASE Head(t) = "e" -> 1 [] Head(t) = "g" -> 2
                          [] Head(t) = "s" -> 3 [] Head(t) = "a" -> 4
                          [] Head(t) = "u" -> 5 [] Head(t) = "n" -> 6
                          [] Head(t) = "k" -> 7 [] OTHER -> 8)
                       + 9 * Weigh(Tail(t))
      SuffixNo == CASE suffix = "|emo" -> 1 [] suffix = "|noun" -> 2
                    [] suffix = "|adj" -> 3 [] OTHER -> 4
  IN 1009 * UserNo + 101 * Weigh(seed[2]) + 37 * SuffixNo

_stable_int_hash(seed, suffix, mod) ==
  IF mod <= 0 THEN 0 ELSE Digest(seed, suffix) % mod

\* build_arabic_alias: the emoji and the alias, by their indexes in the lists
build_arabic_alias(seed) ==
  [emoji |-> _stable_int_hash(seed, "|emo", EmojiCount),
   alias |-> <<_stable_int_hash(seed, "|noun", NounCount),
               _stable_int_hash(seed, "|adj", AdjectiveCount),
               _stable_int_hash(seed, "|num", 90) + 10>>]

NoAlias == [found |-> FALSE, emoji |-> 0, alias |-> <<>>]

AliasRows(username, country_code) ==
  {row \in aliases : row.username = username /\ row.country_code = country_code}

\* get_or_create_lifetime_alias_country seeding the alias with the country
\* code as it was passed
get_or_create_lifetime_alias_country_raw_seed(username, country_code, failSelect, failInsert) ==
  LET key == CountryKey(country_code)
      rows == AliasRows(username, key)
      built == build_arabic_alias(SeedOf(username, country_code))
      failed == [row |-> NoAlias, aliases |-> aliases,
                 printed |-> {"get_or_create_lifetime_alias_country"}]
  IN IF ~supabase THEN [row |-> NoAlias, aliases |-> aliases, printed |-> {}]
     ELSE IF failSelect THEN failed
     ELSE IF rows # {}
       THEN LET row == CHOOSE row \in rows : TRUE
            IN [row |-> [found |-> TRUE, emoji |-> row.emoji, alias |-> row.alias],
                aliases |-> aliases, printed |-> {}]
     ELSE IF failInsert THEN failed
     ELSE [row |-> [found |-> TRUE, emoji |-> built.emoji, alias |-> built.alias],
           aliases |-> aliases \cup
             {[username |-> username, country_code |-> key,
               emoji |-> built.emoji, alias |-> built.alias]},
           printed |-> {}]

\* get_or_create_lifetime_alias_country: the row it returns (found FALSE for
\* None), the alias table it leaves and what it printed; failSelect and
\* failInsert say that the select or the insert raises
get_or_create_lifetime_alias_country(username, country_code, failSelect, failInsert) ==
  LET key == CountryKey(country_code)
      rows == AliasRows(username, key)
      built == build_arabic_alias(SeedOf(username, key))
      failed == [row |-> NoAlias, aliases |-> aliases,
                 printed |-> {"get_or_create_lifetime_alias_country"}]
  IN IF ~supabase THEN [row |-> NoAlias, aliases |-> aliases, printed |-> {}]
     ELSE IF failSelect THEN failed
     ELSE IF rows # {}
       THEN LET row == CHOOSE row \in rows : TRUE
            IN [row |-> [found |-> TRUE, emoji |-> row.emoji, alias |-> row.alias],
                aliases |-> aliases, printed |-> {}]
     ELSE IF failInsert THEN failed
     ELSE [row |-> [found |-> TRUE, emoji |-> built.emoji, alias |-> built.alias],
           aliases |-> aliases \cup
             {[username |-> username, country_code |-> key,
               emoji |-> built.emoji, alias |-> built.alias]},
           printed |-> {}]

\* the country codes handed to the alias functions: two spellings of one
\* country, another country, and none
AliasCountries == {EG, <<"e", "G">>, SA, <<>>}
AliasUsers == {"u1", "u2"}

\* what the calls so far returned for each (username, country)
NoneSeen == [k \in {} |-> NoAlias]

CallAlias ==
  /\ \E username \in AliasUsers, country_code \in AliasCountries,
        failSelect, failInsert \in BOOLEAN :
       LET r == get_or_create_lifetime_alias_country(username, country_code,
                                                     failSelect, failInsert)
           key == <<username, CountryKey(country_code)>>
           seen == IF call.fn = "get_or_create_lifetime_alias_country"
                     THEN call.seen ELSE NoneSeen
       IN /\ aliases' = r.aliases
          /\ call' = [fn |-> "get_or_create_lifetime_alias_country",
                      username |-> username, country_code |-> country_code,
                      earlier |-> IF key \in DOMAIN seen THEN seen[key] ELSE NoAlias,
                      seen |-> IF r.row.found /\ key \notin DOMAIN seen
                                 THEN [k \in DOMAIN seen \cup {key} |->
                                         IF k = key THEN r.row ELSE seen[k]]
                                 ELSE seen]
          /\ result' = [fn |-> "get_or_create_lifetime_alias_country",
                        row |-> r.row]
          /\ printed' = r.printed
          /\ raised' = FALSE
  /\ UNCHANGED <<files, SENTENCES_CACHE, supabase, users, sessions, clock, st,
                 msg, returned, history, leaderboard, metadata>>

InitAlias ==
  /\ supabase \in BOOLEAN
  /\ aliases = {}
  /\ leaderboard = <<>>
  /\ metadata = NoMetadata
  /\ files = [c \in Countries |-> NoFile]
  /\ SENTENCES_CACHE = [c \in Countries |-> NotCached]
  /\ users = [u \in Users |-> EG_CA]
  /\ sessions = [u \in Users |-> NewRow]
  /\ clock = 0
  /\ st = LoggedOut
  /\ msg = ""
  /\ printed = {}
  /\ raised = FALSE
  /\ returned = [u \in Users |-> {}]
  /\ history = NoHistory
  /\ call = Idle
  /\ result = NoResult

NextAlias == CallAlias

SpecAlias == InitAlias /\ [][NextAlias]_vars

AliasCalled == call.fn = "get_or_create_lifetime_alias_country"

(***************************************************************************)
(* C23: every call of get_or_create_lifetime_alias_country that returns    *)
(* an alias for a (participant, country) returns the emoji and alias the   *)
(* earlier calls for that pair returned, and they are build_arabic_alias   *)
(* of the seed made of the username and the lower-cased country code.      *)
(***************************************************************************)
C23_AliasIsStable ==
  (AliasCalled /\ result.row.found) =>
    LET built == build_arabic_alias(
                   SeedOf(call.username, CountryKey(call.country_code)))
    IN /\ result.row.emoji = built.emoji
       /\ result.row.alias = built.alias
       /\ call.earlier.found =>
            /\ result.row.emoji = call.earlier.emoji
            /\ result.row.alias = call.earlier.alias
       /\ \A row \in AliasRows(call.username, CountryKey(call.country_code)) :
            row.emoji = built.emoji /\ row.alias = built.alias

\* a call under another spelling of the country returns the alias a call
\* before it created
C23_Witness ==
  /\ AliasCalled
  /\ result.row.found
  /\ call.earlier.found
  /\ call.country_code # CountryKey(call.country_code)
  /\ Cardinality(aliases) > 1

(***************************************************************************)
(* The leaderboard of a country: refresh_leaderboard, which updates the    *)
(* participant's row and renders the list, as do_login does after a login. *)
(***************************************************************************)
LEADERBOARD_TOP_N == 8
LEADERBOARD_MIN_SECONDS_TO_SHOW == 60

\* session totals on both sides of LEADERBOARD_MIN_SECONDS_TO_SHOW
BoardTotals ==
  {0} \cup ((LEADERBOARD_MIN_SECONDS_TO_SHOW - 1)..
            (LEADERBOARD_MIN_SECONDS_TO_SHOW + MaxTime))

\* the tables the upserts of earlier logins can have left: every row is
\* missing, or holds the least or the largest total that is shown
BoardTables ==
  {TableOf(times) :
     times \in [1..Len(RowKeys) ->
                  {Absent, LEADERBOARD_MIN_SECONDS_TO_SHOW,
                   LEADERBOARD_MIN_SECONDS_TO_SHOW + MaxTime}]}

\* upsert(payload, on_conflict="country_code,username")
UpsertEntry(country_code, username, time_seconds) ==
  LET row == [country_code |-> country_code, username |-> username,
              time_seconds |-> time_seconds]
      Same(i) == /\ leaderboard[i].country_code = country_code
                 /\ leaderboard[i].username = username
  IN IF \E i \in 1..Len(leaderboard) : Same(i)
       THEN [i \in 1..Len(leaderboard) |->
               IF Same(i) THEN row ELSE leaderboard[i]]
       ELSE Append(leaderboard, row)

\* upsert_lifetime_leaderboard_entry_country writing the row of any total
upsert_lifetime_leaderboard_entry_country_no_minimum(username, user_dialect_code, fail) ==
  LET country_code == get_country_code_from_dialect_code(user_dialect_code)
      alias_row == get_or_create_lifetime_alias_country(
                     username, country_code, fail.select, fail.insert)
      sess == load_session(username, fail.load)
      total_seconds == sess.total_recording_duration
  IN IF ~supabase
       THEN [leaderboard |-> leaderboard, aliases |-> aliases, printed |-> {}]
     ELSE IF ~alias_row.row.found
       THEN [leaderboard |-> leaderboard, aliases |-> alias_row.aliases,
             printed |-> alias_row.printed]
     ELSE IF fail.upsert
       THEN [leaderboard |-> leaderboard, aliases |-> alias_row.aliases,
             printed |-> sess.printed
                           \cup {"upsert_lifetime_leaderboard_entry_country"}]
     ELSE [leaderboard |-> UpsertEntry(country_code, username, total_seconds),
           aliases |-> alias_row.aliases, printed |-> sess.printed]

\* upsert_lifetime_leaderboard_entry_country: the two tables it leaves and
\* what it printed; `fail` says which of its store calls raise
upsert_lifetime_leaderboard_entry_country(username, user_dialect_code, fail) ==
  LET country_code == get_country_code_from_dialect_code(user_dialect_code)
      alias_row == get_or_create_lifetime_alias_country(
                     username, country_code, fail.select, fail.insert)
      sess == load_session(username, fail.load)
      total_seconds == sess.total_recording_duration
  IN IF ~supabase
       THEN [leaderboard |-> leaderboard, aliases |-> aliases, printed |-> {}]
     ELSE IF ~alias_row.row.found
       THEN [leaderboard |-> leaderboard, aliases |-> alias_row.aliases,
             printed |-> alias_row.printed]
     ELSE IF total_seconds < LEADERBOARD_MIN_SECONDS_TO_SHOW
       THEN [leaderboard |-> leaderboard, aliases |-> alias_row.aliases,
             printed |-> sess.printed]
     ELSE IF fail.upsert
       THEN [leaderboard |-> leaderboard, aliases |-> alias_row.aliases,
             printed |-> sess.printed
                           \cup {"upsert_lifetime_leaderboard_entry_country"}]
     ELSE [leaderboard |-> UpsertEntry(country_code, username, total_seconds),
           aliases |-> alias_row.aliases, printed |-> sess.printed]

\* the orders .order("time_seconds", desc=True).limit(limit) may return the
\* rows of `rows` in, as indexes: the database leaves the order of rows with
\* equal times open, and with it which of them the limit cuts
TopOrders(rows, country_code, limit) ==
  LET mine == {i \in 1..Len(rows) : rows[i].country_code = country_code}
      k == Min(limit, Cardinality(mine))
  IN {q \in [1..k -> mine] :
        /\ \A i, j \in 1..k : i < j =>
             /\ q[i] # q[j]
             /\ rows[q[i]].time_seconds >= rows[q[j]].time_seconds
        /\ \A r \in mine \ Range(q) :
             \A i \in 1..k : rows[r].time_seconds <= rows[q[i]].time_seconds}

\* fetch_top_lifetime_country over the table `rows`
fetch_top_lifetime_country(rows, country_code, limit, order, fails) ==
  IF ~supabase THEN [top |-> <<>>, printed |-> {}]
  ELSE IF fails THEN [top |-> <<>>, printed |-> {"fetch_top_lifetime_country"}]
  ELSE [top |-> [i \in 1..Len(order) |->
                   [username |-> rows[order[i]].username,
                    time_seconds |-> rows[order[i]].time_seconds]],
        printed |-> {}]

\* fetch_user_row_country over the table `rows`: whether it returns a row
fetch_user_row_country(rows, country_code, username, fails) ==
  IF ~supabase THEN [found |-> FALSE, printed |-> {}]
  ELSE IF fails THEN [found |-> FALSE, printed |-> {"fetch_user_row_country"}]
  ELSE [found |-> \E i \in 1..Len(rows) :
                    /\ rows[i].country_code = country_code
                    /\ rows[i].username = username,
        printed |-> {}]

NoFailure ==
  [select |-> FALSE, insert |-> FALSE, load |-> FALSE, upsert |-> FALSE,
   top |-> FALSE, me |-> FALSE, higher |-> FALSE, row |-> FALSE]

\* one store call of the handler raises, or none does
Failures ==
  {NoFailure} \cup
  {[NoFailure EXCEPT ![f] = TRUE] :
     f \in {"select", "insert", "load", "upsert", "top", "me", "higher", "row"}}

NoView == [top |-> <<>>, shown |-> FALSE, rank |-> 0]

\* refresh_leaderboard: the upsert of the participant's row, then
\* render_leaderboard_html_country, of which the model keeps the rows of the
\* list in their order (row i is numbered i) and the rank of the "you" line
refresh_leaderboard ==
  /\ raised' = FALSE
  /\ UNCHANGED <<files, SENTENCES_CACHE, supabase, users, sessions, clock, st,
                 msg, returned, history, metadata>>
  /\ IF ~st.logged_in \/ st.username = NoUser
       THEN /\ call' = [fn |-> "refresh_leaderboard", logged_in |-> FALSE]
            /\ result' = [fn |-> "refresh_leaderboard", view |-> NoView]
            /\ printed' = {}
            /\ UNCHANGED <<leaderboard, aliases>>
       ELSE \E fail \in Failures :
         LET username == st.username
             user_dialect ==
               OrElse(OrElse(st.user_dialect_code, st.dialect_code), UNK_GEN)
             country_code == get_country_code_from_dialect_code(user_dialect)
             key == CountryKey(country_code)
         IN \E up \in {upsert_lifetime_leaderboard_entry_country(
                          username, user_dialect, fail)} :
            \E order \in TopOrders(up.leaderboard, key, LEADERBOARD_TOP_N) :
              LET rows == up.leaderboard
                  top == fetch_top_lifetime_country(
                           rows, key, LEADERBOARD_TOP_N, order, fail.top)
                  my_row == fetch_user_row_country(rows, key, username, fail.row)
              IN /\ leaderboard' = rows
                 /\ aliases' = up.aliases
                 /\ call' = [fn |-> "refresh_leaderboard", logged_in |-> TRUE,
                             username |-> username, country_code |-> key,
                             before |-> leaderboard, fail |-> fail]
                 /\ LET my_rank == get_user_rank_country(
                                     rows, key, username, fail.me, fail.higher)
                    IN /\ result' =
                            [fn |-> "refresh_leaderboard",
                             view |-> [top |-> top.top,
                                       shown |-> my_rank.found /\ my_row.found,
                                       rank |-> my_rank.rank]]
                       /\ printed' = up.printed \cup top.printed
                             \cup my_rank.printed \cup my_row.printed

TopLimits == {2, LEADERBOARD_TOP_N}

\* fetch_top_lifetime_country on its own
CallTop ==
  /\ \E country_code \in {EG, SA}, limit \in TopLimits, fails \in BOOLEAN :
       \E order \in TopOrders(leaderboard, country_code, limit) :
         LET r == fetch_top_lifetime_country(leaderboard, country_code, limit,
                                             order, fails)
         IN /\ call' = [fn |-> "fetch_top_lifetime_country",
                        country_code |-> country_code, limit |-> limit]
            /\ result' = [fn |-> "fetch_top_lifetime_country",
                          view |-> [NoView EXCEPT !.top = r.top]]
            /\ printed' = r.printed
            /\ raised' = FALSE
  /\ UNCHANGED <<files, SENTENCES_CACHE, supabase, users, sessions, clock, st,
                 msg, returned, history, leaderboard, aliases, metadata>>

\* the state do_login leaves for a participant with no sentence to read
LoggedInAs(username, session) ==
  [logged_in |-> TRUE, username |-> username,
   user_dialect_code |-> users[username],
   active_dialect_code |-> users[username],
   dialect_code |-> users[username],
   completed_sentences |-> session.completed_sentences,
   total_duration |-> session.total_recording_duration,
   current_sentence_id |-> NoId, current_sentence_text |-> NoMoreLogin]

InitBoard ==
  /\ supabase = TRUE
  /\ leaderboard \in BoardTables
  /\ aliases = {}
  /\ metadata = NoMetadata
  /\ files = [c \in Countries |-> IF c = EG THEN FileOf(<<>>) ELSE NoFile]
  /\ SENTENCES_CACHE =
       [c \in Countries |->
          IF c = EG THEN [cached |-> TRUE, sentences |-> <<>>] ELSE NotCached]
  /\ users = [u \in Users |-> EG_CA]
  /\ \E total \in BoardTotals :
       sessions = [u \in Users |->
                     [NewRow EXCEPT !.total_recording_duration = total]]
  /\ st \in {LoggedOut} \cup {LoggedInAs(u, sessions[u]) : u \in Users}
  /\ clock = 0
  /\ msg = ""
  /\ printed = {}
  /\ raised = FALSE
  /\ returned = [u \in Users |-> {}]
  /\ history = NoHistory
  /\ call = Idle
  /\ result = NoResult

NextBoard == refresh_leaderboard \/ CallTop

SpecBoard == InitBoard /\ [][NextBoard]_vars

Refreshed == call.fn = "refresh_leaderboard" /\ call.logged_in

\* the rows of `rows` for a country, and whether a participant has one
RowsIn(rows, country_code) ==
  {i \in 1..Len(rows) : rows[i].country_code = country_code}

HasRowIn(rows, country_code, username) ==
  \E i \in RowsIn(rows, country_code) : rows[i].username = username

TimeIn(rows, country_code, username) ==
  LET i == CHOOSE i \in RowsIn(rows, country_code) : rows[i].username = username
  IN rows[i].time_seconds

Listed(username) ==
  \E i \in 1..Len(result.view.top) : result.view.top[i].username = username

BelowMinimum ==
  sessions[call.username].total_recording_duration
    < LEADERBOARD_MIN_SECONDS_TO_SHOW

(***************************************************************************)
(* C21, as claimed: after the leaderboard update of a participant whose    *)
(* total is below LEADERBOARD_MIN_SECONDS_TO_SHOW, none of the store calls *)
(* failing, the participant has a row in the table and is given a rank,    *)
(* and is not in the visible list.                                         *)
(***************************************************************************)
C21_BelowMinimumIsStored ==
  (Refreshed /\ call.fail = NoFailure /\ BelowMinimum) =>
    /\ HasRowIn(leaderboard, call.country_code, call.username)
    /\ result.view.shown
    /\ ~Listed(call.username)

(***************************************************************************)
(* C21, amended: the leaderboard update of a participant whose total is    *)
(* below LEADERBOARD_MIN_SECONDS_TO_SHOW writes nothing, so a participant  *)
(* without an earlier row has none, gets no rank and is not in the visible *)
(* list; a row the update writes holds the session total, which is at      *)
(* least the minimum, and leaves the other rows alone; and a rank that is  *)
(* shown counts every stored row of the country with a greater time.       *)
(***************************************************************************)
C21_BelowMinimumIsNotStored ==
  Refreshed =>
    LET cc == call.country_code
        u == call.username
    IN /\ BelowMinimum => leaderboard = call.before
       /\ (BelowMinimum /\ ~HasRowIn(call.before, cc, u)) =>
            /\ ~HasRowIn(leaderboard, cc, u)
            /\ ~result.view.shown
            /\ ~Listed(u)
       /\ leaderboard # call.before =>
            /\ HasRowIn(leaderboard, cc, u)
            /\ TimeIn(leaderboard, cc, u)
                 = sessions[u].total_recording_duration
            /\ TimeIn(leaderboard, cc, u) >= LEADERBOARD_MIN_SECONDS_TO_SHOW
            /\ \A i \in 1..Len(call.before) :
                 call.before[i].username # u => leaderboard[i] = call.before[i]
       /\ result.view.shown =>
            result.view.rank =
              1 + Cardinality({i \in RowsIn(leaderboard, cc) :
                                 leaderboard[i].time_seconds
                                   > TimeIn(leaderboard, cc, u)})

\* a participant one second under the minimum refreshes the leaderboard of a
\* country that has rows: no row, no rank, not listed
C21_Witness ==
  /\ Refreshed
  /\ call.fail = NoFailure
  /\ sessions[call.username].total_recording_duration
       = LEADERBOARD_MIN_SECONDS_TO_SHOW - 1
  /\ ~HasRowIn(leaderboard, call.country_code, call.username)
  /\ ~result.view.shown
  /\ Len(result.view.top) > 1
  /\ aliases # {}

Viewed == call.fn \in {"refresh_leaderboard", "fetch_top_lifetime_country"}
            /\ result.view.top # <<>>

\* where the row of a listed participant is in the table
IndexOf(country_code, username) ==
  CHOOSE i \in RowsIn(leaderboard, country_code) :
    leaderboard[i].username = username

(***************************************************************************)
(* C22: the visible list of a country has at most LEADERBOARD_TOP_N rows,  *)
(* all of that country, in order of time descending, rows of equal time in *)
(* the order of their insertion, and the number of a row in the list is    *)
(* the rank get_user_rank_country gives its participant.                   *)
(***************************************************************************)
C22_ListAgreesWithRank ==
  Viewed =>
    LET top == result.view.top
        cc == call.country_code
    IN /\ Len(top) <= LEADERBOARD_TOP_N
       /\ \A i \in 1..Len(top) :
            /\ HasRowIn(leaderboard, cc, top[i].username)
            /\ get_user_rank_country(leaderboard, cc, top[i].username,
                                     FALSE, FALSE).rank = i
       /\ \A i, j \in 1..Len(top) : i < j =>
            /\ top[i].time_seconds >= top[j].time_seconds
            /\ top[i].time_seconds = top[j].time_seconds =>
                 IndexOf(cc, top[i].username) < IndexOf(cc, top[j].username)

\* what does hold of the list: at most `limit` rows of the country, no row
\* twice, times descending, and no row left out has a greater time
ListIsSortedTop ==
  Viewed =>
    LET top == result.view.top
        cc == call.country_code
    IN /\ Len(top) <= LEADERBOARD_TOP_N
       /\ \A i \in 1..Len(top) :
            /\ HasRowIn(leaderboard, cc, top[i].username)
            /\ get_user_rank_country(leaderboard, cc, top[i].username,
                                     FALSE, FALSE).rank <= i
       /\ \A i, j \in 1..Len(top) : i < j =>
            /\ top[i].username # top[j].username
            /\ top[i].time_seconds >= top[j].time_seconds

(***************************************************************************)
(* The metadata blob of a participant on S3, and the requests that append  *)
(* a row to it.  A blob is the sequence of its lines; a line is the tuple  *)
(* of its "|"-separated fields.  The lines of the model carry no spaces at *)
(* their ends and none is blank, so that the strip() of a line and the     *)
(* filter on blank lines leave them as they are.                           *)
(***************************************************************************)
\* "audio_file|text"
Header == <<<<"audio_file">>, "text">>

\* a sentence text of two lines, as the three-line sentence box can hold
MultiLine == "l1\nl2"

\* str.splitlines() of a text of the model
SplitLines(text) == IF text = MultiLine THEN <<"l1", "l2">> ELSE <<text>>

\* f"{username}_{sentence_id}.wav"
WavName(username, sentence_id) == <<username, sentence_id, ".wav">>

\* f"{filename}|{sentence_text.strip()}", and the empty row line
RowLine(filename, text) == [filename |-> filename, text |-> text]
NoRowLine == [filename |-> <<>>, text |-> ""]

\* "metadata.csv", or f"metadata_{active_dialect}.csv"
MetaFilename(active_dialect, user_dialect) ==
  IF active_dialect = user_dialect THEN <<"metadata.csv">>
  ELSE <<"metadata_", active_dialect, ".csv">>

\* the lines a row line takes in a blob
LinesOfRow(row_line) ==
  LET t == SplitLines(row_line.text)
  IN [i \in 1..Len(t) |-> IF i = 1 THEN <<row_line.filename, t[1]>> ELSE <<t[i]>>]

\* row_line in existing_set, a set of lines
InLines(row_line, existing_set) ==
  /\ Len(SplitLines(row_line.text)) = 1
  /\ <<row_line.filename, row_line.text>> \in existing_set

\* what download_s3_text_if_exists returns: None, or the lines of the text
NoBlob == [exists |-> FALSE, lines |-> <<>>]
BlobOf(lines) == [exists |-> TRUE, lines |-> lines]

S3Blob(key) ==
  IF key \in DOMAIN metadata.s3 THEN BlobOf(metadata.s3[key]) ELSE NoBlob

\* the store once upload_file_to_s3 has put `lines` under `key`
PutBlob(store, key, lines) ==
  [k \in DOMAIN store \cup {key} |-> IF k = key THEN lines ELSE store[k]]

\* `merged` of append_row_to_s3_metadata, for a row line that is not empty
Merged(existing, row_line) ==
  IF ~existing.exists \/ existing.lines = <<>>
    THEN <<Header>> \o LinesOfRow(row_line)
    ELSE LET lines == existing.lines
             has_header == lines[1] = Header
             rows == IF has_header THEN Tail(lines) ELSE lines
             existing_set == Range(rows)
         IN IF ~InLines(row_line, existing_set)
              THEN <<Header>> \o rows \o LinesOfRow(row_line)
              ELSE existing.lines

\* the blob the requests append to
MetaKey == <<EG, "u1", <<"metadata.csv">>>>

\* the row lines handed to append_row_to_s3_metadata
RowInputs ==
  {RowLine(WavName("u1", "s1"), "t1"), RowLine(WavName("u1", "s2"), "t2"),
   RowLine(WavName("u1", "s1"), MultiLine), NoRowLine}

\* the blobs the requests find: none, an empty one, one written by an
\* earlier call, and one from before the header was written
Blobs ==
  {NoBlob, BlobOf(<<>>), BlobOf(<<Header, <<WavName("u1", "s3"), "t3">>>>),
   BlobOf(<<<<WavName("u1", "s3"), "t3">>>>)}

\* existing = download_s3_text_if_exists(s3_key), None when get_object
\* raises; an empty row line returns here
DownloadBlob(r) ==
  /\ AtStep(r, "start")
  /\ \E fails \in BOOLEAN :
       call' = [call EXCEPT
                  !.pc[r] = IF call.row[r] = NoRowLine THEN "done" ELSE "upload",
                  !.existing[r] = IF fails THEN NoBlob ELSE S3Blob(call.key)]
  /\ UNCHANGED <<files, SENTENCES_CACHE, supabase, users, sessions, clock, st,
                 msg, printed, raised, returned, history, leaderboard, aliases,
                 metadata, result>>

\* the merge, and upload_file_to_s3(tmp_path, s3_key), which returns False
\* and leaves the blob when the upload raises
UploadBlob(r) ==
  /\ AtStep(r, "upload")
  /\ \E fails \in BOOLEAN :
       /\ metadata' =
            IF fails THEN metadata
            ELSE [metadata EXCEPT !.s3 =
                    PutBlob(metadata.s3, call.key,
                            Merged(call.existing[r], call.row[r]))]
       /\ printed' = IF fails THEN {"upload_file_to_s3"} ELSE {}
  /\ Goto(r, "done")
  /\ UNCHANGED <<files, SENTENCES_CACHE, supabase, users, sessions, clock, st,
                 msg, raised, returned, history, leaderboard, aliases, result>>

InitMeta ==
  /\ \E blob \in Blobs, rows \in [Requests -> RowInputs] :
       /\ metadata = [NoMetadata EXCEPT !.s3 =
                        IF blob.exists THEN PutBlob(NoFiles, MetaKey, blob.lines)
                        ELSE NoFiles]
       /\ call = [fn |-> "requests", key |-> MetaKey, row |-> rows,
                  pc |-> [r \in Requests |-> "start"],
                  existing |-> [r \in Requests |-> NoBlob]]
  /\ result = NoResult
  /\ files = [c \in Countries |-> NoFile]
  /\ SENTENCES_CACHE = [c \in Countries |-> NotCached]
  /\ supabase = TRUE
  /\ users = [u \in Users |-> EG_CA]
  /\ sessions = [u \in Users |-> NewRow]
  /\ clock = 0
  /\ st = LoggedOut
  /\ msg = ""
  /\ printed = {}
  /\ raised = FALSE
  /\ returned = [u \in Users |-> {}]
  /\ history = NoHistory
  /\ leaderboard = <<>>
  /\ aliases = {}

NextMeta ==
  \/ \E r \in Requests : DownloadBlob(r)
  \/ \E r \in Requests : UploadBlob(r)

SpecMeta == InitMeta /\ [][NextMeta]_vars

\* the data rows of the blob, as lines
DataLines(blob) ==
  IF ~blob.exists THEN {} ELSE Range(blob.lines) \ {Header}

(***************************************************************************)
(* C24: after any sequence of calls of append_row_to_s3_metadata no line   *)
(* is twice in the metadata blob, so that a (filename, text) row is listed *)
(* at most once.                                                           *)
(***************************************************************************)
C24_RowListedOnce ==
  NoDuplicates(S3Blob(MetaKey).lines)

\* what does hold: rows of one line are listed once
SingleLinesListedOnce ==
  (\A r \in Requests : call.row[r].text # MultiLine) =>
    NoDuplicates(S3Blob(MetaKey).lines)

(***************************************************************************)
(* C30: no step of a call of append_row_to_s3_metadata takes a data row    *)
(* out of the metadata blob, also when the download fails or two calls     *)
(* overlap, and a call that has uploaded leaves its row in the blob.       *)
(***************************************************************************)
C30_NeverLosesRows ==
  [][/\ DataLines(S3Blob(MetaKey)) \subseteq DataLines(S3Blob(MetaKey)')
     /\ \A r \in Requests :
          (call.fn = "requests" /\ call.pc[r] = "upload" /\ call'.pc[r] = "done")
            => Range(LinesOfRow(call.row[r])) \subseteq DataLines(S3Blob(MetaKey)')
    ]_vars

(***************************************************************************)
(* A recording session with the metadata save_recording_and_upload writes: *)
(* the metadata file under the participant's directory and the metadata    *)
(* blob on S3.                                                             *)
(***************************************************************************)
\* with meta_file.open("a"): the header when the file is missing or empty,
\* then the row line
LocalAppend(store, path, row_line) ==
  LET old == IF path \in DOMAIN store /\ store[path] # <<>>
               THEN store[path] ELSE <<Header>>
  IN PutBlob(store, path, old \o LinesOfRow(row_line))

\* save_recording_and_upload filing the recording under the participant's
\* own dialect, whichever pool the sentence came from
SavedMetadata_own_dialect(username, active_dialect_code, user_dialect_code, sentence_id, sentence_text, failDownload, failUpload) ==
  LET country_code == split_dialect_code(user_dialect_code)[1]
      user_dialect == split_dialect_code(user_dialect_code)[2]
      meta_filename == MetaFilename(user_dialect, user_dialect)
      row_line == RowLine(WavName(username, sentence_id), StripText(sentence_text))
      meta_file == <<country_code, user_dialect, username, meta_filename>>
      s3_meta_key == <<country_code, username, meta_filename>>
      existing == IF failDownload THEN NoBlob ELSE S3Blob(s3_meta_key)
  IN [local |-> LocalAppend(metadata.local, meta_file, row_line),
      s3 |-> IF failUpload THEN metadata.s3
             ELSE PutBlob(metadata.s3, s3_meta_key, Merged(existing, row_line))]

\* the metadata save_recording_and_upload leaves: user_dir is
\* USERS_ROOT / country / active dialect / username; failDownload and
\* failUpload say that the S3 download or upload of the blob raises
SavedMetadata(username, active_dialect_code, user_dialect_code, sentence_id, sentence_text, failDownload, failUpload) ==
  LET country_code == split_dialect_code(active_dialect_code)[1]
      active_dialect == split_dialect_code(active_dialect_code)[2]
      user_dialect == split_dialect_code(user_dialect_code)[2]
      meta_filename == MetaFilename(active_dialect, user_dialect)
      row_line == RowLine(WavName(username, sentence_id), StripText(sentence_text))
      meta_file == <<country_code, active_dialect, username, meta_filename>>
      s3_meta_key == <<country_code, username, meta_filename>>
      existing == IF failDownload THEN NoBlob ELSE S3Blob(s3_meta_key)
  IN [local |-> LocalAppend(metadata.local, meta_file, row_line),
      s3 |-> IF failUpload THEN metadata.s3
             ELSE PutBlob(metadata.s3, s3_meta_key, Merged(existing, row_line))]

\* the sentence texts an accepted handle_save can hold for the state st:
\* (edited_sentence or st["current_sentence_text"]).strip(), not empty
SavedTexts ==
  {StripText(IF e # "" THEN e ELSE st.current_sentence_text) :
     e \in EditedInputs} \ {""}

\* the metadata part of handle_save: an accepted save writes the row of the
\* current sentence, every other return writes nothing
SaveMetadata ==
  IF msg' = "saved"
    THEN \E sentence_text \in SavedTexts, failDownload, failUpload \in BOOLEAN :
           metadata' =
             SavedMetadata(st.username,
                           OrElse(st.active_dialect_code, st.dialect_code),
                           OrElse(OrElse(st.user_dialect_code, st.dialect_code),
                                  UNK_GEN),
                           st.current_sentence_id, sentence_text,
                           failDownload, failUpload)
    ELSE UNCHANGED metadata

InitSave ==
  /\ files = [c \in Countries |->
                IF c = EG THEN FileOf(PoolOf(SubSeq(MasterTags, 1, MaxSessionPool)))
                ELSE NoFile]
  /\ SENTENCES_CACHE = [c \in Countries |-> NotCached]
  /\ supabase = TRUE
  /\ users \in [Users -> ParticipantCodes]
  /\ sessions = [u \in Users |-> NewRow]
  /\ clock = 0
  /\ st = LoggedOut
  /\ msg = ""
  /\ printed = {}
  /\ raised = FALSE
  /\ returned = [u \in Users |-> {}]
  /\ history = NoHistory
  /\ leaderboard = <<>>
  /\ aliases = {}
  /\ metadata = NoMetadata
  /\ call = Idle
  /\ result = NoResult

\* one recording session: the login view is shown until a login succeeds,
\* and the session is followed up to its logout
NextSave ==
  \/ ~st.logged_in /\ do_login
       /\ UNCHANGED <<history, leaderboard, aliases, metadata>>
  \/ handle_save /\ SaveMetadata /\ UNCHANGED <<history, leaderboard, aliases>>
  \/ handle_skip /\ UNCHANGED <<history, leaderboard, aliases, metadata>>

SpecSave == InitSave /\ [][NextSave]_vars

\* the sentence the session is reading, and whether it carries the
\* participant's own dialect code
CurrentSentence(s) ==
  CHOOSE x \in Range(files[CountryOf[Normalized[s.user_dialect_code]]].sentences) :
    x.unique_id = s.current_sentence_id

FromOwnPool(s) ==
  Normalized[s.user_dialect_code] \in Range(CurrentSentence(s).dialect)

\* the active dialect code is the code the current sentence was found under
ActiveIsResolved ==
  (st.logged_in /\ st.current_sentence_id # NoId) =>
    IF FromOwnPool(st)
      THEN st.active_dialect_code = Normalized[st.user_dialect_code]
      ELSE /\ st.active_dialect_code = FallbackOf[st.user_dialect_code]
           /\ st.active_dialect_code \in Range(CurrentSentence(st).dialect)

\* where the claim sends the recording of the current sentence of st
RouteOf(s) ==
  LET own == split_dialect_code(Normalized[s.user_dialect_code])
  IN IF FromOwnPool(s)
       THEN [dir |-> <<own[1], own[2], s.username>>, file |-> <<"metadata.csv">>]
       ELSE [dir |-> <<own[1], OTH, s.username>>,
             file |-> <<"metadata_", OTH, ".csv">>]

(***************************************************************************)
(* C25: the active dialect code of the session is always the code the      *)
(* current sentence was selected under, and an accepted save appends the   *)
(* row of that sentence to "metadata.csv" under the participant's own      *)
(* dialect directory when the sentence came from the own pool, and to      *)
(* "metadata_<fallback subtag>.csv" under the fallback subtag's directory  *)
(* when it came from the fallback pool, touching no other metadata file    *)
(* or blob.                                                                *)
(***************************************************************************)
C25_RoutedByResolvedCode ==
  /\ []ActiveIsResolved
  /\ [][msg' = "saved" =>
          LET route == RouteOf(st)
              path == <<route.dir[1], route.dir[2], route.dir[3], route.file>>
              key == <<route.dir[1], route.dir[3], route.file>>
              after == metadata'.local
          IN /\ path \in DOMAIN after
             /\ after[path][Len(after[path])][1]
                  = WavName(st.username, st.current_sentence_id)
             /\ \A p \in DOMAIN after \ {path} :
                  p \in DOMAIN metadata.local /\ after[p] = metadata.local[p]
             /\ \A k \in DOMAIN metadata'.s3 \ {key} :
                  k \in DOMAIN metadata.s3 /\ metadata'.s3[k] = metadata.s3[k]
       ]_vars

\* a sentence of the fallback pool was saved after one of the own pool: both
\* metadata files are on disk
C25_Witness ==
  /\ msg = "saved"
  /\ <<EG, OTH, "u1", <<"metadata_", OTH, ".csv">>>> \in DOMAIN metadata.local
  /\ <<EG, <<"c", "a">>, "u1", <<"metadata.csv">>>> \in DOMAIN metadata.local
  /\ <<EG, "u1", <<"metadata_", OTH, ".csv">>>> \in DOMAIN metadata.s3

Rejections ==
  {"login_first", "record_first", "empty_text", "no_active", "audio_bad"}

(***************************************************************************)
(* C27: a handle_save that returns early (not logged in, no audio, empty   *)
(* text, no active sentence, audio that fails validation) leaves the       *)
(* session state, the session store and the metadata as they were.         *)
(***************************************************************************)
C27_RejectedSaveChangesNothing ==
  [][msg' \in Rejections =>
       /\ st' = st
       /\ sessions' = sessions
       /\ metadata' = metadata
       /\ ~raised'
    ]_vars

\* a recording that fails validation is rejected in a session that has saved
\* a recording before and is reading a sentence
C27_Witness ==
  /\ msg = "audio_bad"
  /\ st.logged_in
  /\ st.current_sentence_id # NoId
  /\ st.completed_sentences # <<>>
  /\ metadata # NoMetadata

(***************************************************************************)
(* Registration.  Here the users table starts empty and a row of it holds  *)
(* the e-mail address next to the dialect code; create_user draws the      *)
(* username (its uuid part) from NewNames.                                 *)
(***************************************************************************)
NewNames == {"n1", "n2"}

\* COUNTRY_CODES.get(country, "unk")
CountryCode(country) == IF country = "Egypt" THEN EG ELSE UNK

\* COUNTRY_DIALECTS.get(country, {}).get(dialect_label, "oth")
DialectRaw(country, dialect_label) ==
  IF country = "Egypt" /\ dialect_label = "cairene" THEN <<"c", "a">> ELSE OTH

RegCountries == {"Egypt", "Atlantis"}
RegLabels == {"cairene", "other"}
RegEmails == {"a@x", "A@x", "b@x"}

\* email.lower()
LowerEmail(email) == IF email = "A@x" THEN "a@x" ELSE email

NoUsers == [u \in {} |-> [email |-> "", dialect_code |-> NoneStr]]

\* get_user_by_email: whether it returns a row; None when the query raises
get_user_by_email(email, fails) ==
  ~fails /\ \E u \in DOMAIN users : users[u].email = LowerEmail(email)

\* create_user: whether it reports success, the two tables it leaves and what
\* it printed; fail.email, fail.user and fail.session say that the e-mail
\* lookup, the insert into users or the insert into sessions raises (the
\* insert into users also raises for a username that is taken)
create_user(email, country, dialect_label, username, fail) ==
  LET dialect_code == CountryCode(country) \o <<"-">> \o DialectRaw(country, dialect_label)
      row == [email |-> LowerEmail(email), dialect_code |-> dialect_code]
      same == [ok |-> FALSE, users |-> users, sessions |-> sessions, printed |-> {}]
      inserted == [u \in DOMAIN users \cup {username} |->
                     IF u = username THEN row ELSE users[u]]
  IN IF ~supabase THEN same
     ELSE IF get_user_by_email(LowerEmail(email), fail.email)
       THEN [same EXCEPT !.printed = {}]
     ELSE IF fail.user \/ username \in DOMAIN users
       THEN [same EXCEPT !.printed = {"create_user"}]
     ELSE IF fail.session
       THEN [same EXCEPT !.users = inserted, !.printed = {"create_user"}]
     ELSE [ok |-> TRUE, users |-> inserted,
           sessions |-> [sessions EXCEPT ![username] = NewRow],
           printed |-> {}]

RegFailures ==
  {[email |-> FALSE, user |-> FALSE, session |-> FALSE],
   [email |-> TRUE, user |-> FALSE, session |-> FALSE],
   [email |-> FALSE, user |-> TRUE, session |-> FALSE],
   [email |-> FALSE, user |-> FALSE, session |-> TRUE]}

CallCreateUser ==
  /\ \E email \in RegEmails, country \in RegCountries, dialect_label \in RegLabels,
        username \in NewNames, fail \in RegFailures :
       LET r == create_user(email, country, dialect_label, username, fail)
       IN /\ users' = r.users
          /\ sessions' = r.sessions
          /\ printed' = (IF supabase /\ fail.email THEN {"get_user_by_email"} ELSE {})
                          \cup r.printed
          /\ call' = [fn |-> "create_user", username |-> username,
                      email |-> email, fail |-> fail, before |-> users]
          /\ result' = [fn |-> "create_user", ok |-> r.ok]
  /\ raised' = FALSE
  /\ UNCHANGED <<files, SENTENCES_CACHE, supabase, clock, st, msg, returned,
                 history, leaderboard, aliases, metadata>>

InitRegister ==
  /\ supabase \in BOOLEAN
  /\ users = NoUsers
  /\ sessions = [u \in NewNames |-> NoRow]
  /\ files = [c \in Countries |-> NoFile]
  /\ SENTENCES_CACHE = [c \in Countries |-> NotCached]
  /\ clock = 0
  /\ st = LoggedOut
  /\ msg = ""
  /\ printed = {}
  /\ raised = FALSE
  /\ returned = [u \in Users |-> {}]
  /\ history = NoHistory
  /\ leaderboard = <<>>
  /\ aliases = {}
  /\ metadata = NoMetadata
  /\ call = Idle
  /\ result = NoResult

NextRegister == CallCreateUser

SpecRegister == InitRegister /\ [][NextRegister]_vars

(***************************************************************************)
(* C26: every username with a row in the users table has a row in the      *)
(* sessions table with no completed sentence and zero duration, and a      *)
(* create_user that reports failure has stored no user row, also when the  *)
(* insert into sessions fails after the insert into users.                 *)
(***************************************************************************)
C26_UserComesWithSession ==
  /\ \A u \in DOMAIN users :
       /\ sessions[u].exists
       /\ sessions[u].completed_sentences = <<>>
       /\ sessions[u].total_recording_duration = 0
  /\ (call.fn = "create_user" /\ ~result.ok) => users = call.before

\* what does hold: a create_user that reports success has stored both rows
RegisteredHasBoth ==
  (call.fn = "create_user" /\ result.ok) =>
    /\ call.username \in DOMAIN users
    /\ call.username \notin DOMAIN call.before
    /\ sessions[call.username] = NewRow

(***************************************************************************)
(* C28: the current sentence id of a session is empty or not in its        *)
(* completed list, after every login, save and skip; and a skip of a       *)
(* session with a current sentence adds that id to the completed list and  *)
(* leaves the total duration as it was.                                    *)
(***************************************************************************)
C28_CurrentIsNotCompleted ==
  /\ [](st.current_sentence_id = NoId
          \/ st.current_sentence_id \notin Range(st.completed_sentences))
  /\ [][(st.logged_in /\ msg' = "skipped") =>
          /\ st'.total_duration = st.total_duration
          /\ st'.completed_sentences =
               IF st.current_sentence_id = NoId THEN st.completed_sentences
               ELSE Append(st.completed_sentences, st.current_sentence_id)
          /\ st'.current_sentence_id \notin Range(st'.completed_sentences) \ {NoId}
       ]_vars

\* a skip moved the session on to another sentence
C28_Witness ==
  /\ st.logged_in
  /\ msg = "skipped"
  /\ st.current_sentence_id # NoId
  /\ st.completed_sentences # <<>>

\* the ids of the sentences the session can be offered
PoolIds(s) == {x.unique_id : x \in PoolFor(s)}

\* a save or a skip that went through, in a session with a current sentence
Advanced ==
  /\ st.logged_in
  /\ st.current_sentence_id # NoId
  /\ msg' \in {"saved", "skipped"}

(***************************************************************************)
(* C29: in a session, every save or skip that goes through while there is *)
(* a current sentence adds exactly that id, a sentence of the two pools    *)
(* not completed before, to the completed list; the current id is empty    *)
(* exactly when both pools are completed, so this happens at most as many  *)
(* times as the pools have sentences; once the current id is empty, save   *)
(* and skip leave the completed list, the total, the current id and the    *)
(* store as they are.  The number of completed sentences of the pools is   *)
(* the variant: it grows by one with each such step and is bounded by the  *)
(* size of the pools, where the current id is empty.                       *)
(***************************************************************************)
C29_SessionRunsOut ==
  /\ [](st.logged_in =>
          /\ (st.current_sentence_id = NoId <=> Exhausted(st))
          /\ st.current_sentence_id # NoId =>
               st.current_sentence_id \in PoolIds(st) \ Range(st.completed_sentences))
  /\ [][Advanced =>
          /\ st'.completed_sentences =
               Append(st.completed_sentences, st.current_sentence_id)
          /\ PoolIds(st') = PoolIds(st)
       ]_vars
  /\ [][(st.logged_in /\ st.current_sentence_id = NoId) =>
          /\ st'.completed_sentences = st.completed_sentences
          /\ st'.total_duration = st.total_duration
          /\ st'.current_sentence_id = NoId
          /\ sessions' = sessions
          /\ msg' \notin {"saved"}
       ]_vars

\* the last sentence of a pool of two or more was saved or skipped
C29_Witness ==
  /\ st.logged_in
  /\ msg \in {"saved", "skipped"}
  /\ st.current_sentence_id = NoId
  /\ Cardinality(PoolIds(st)) >= 2
  /\ Len(st.completed_sentences) = Cardinality(PoolIds(st))

=============================================================================
